---- MODULE Spec2Model ----
(***************************************************************************)
(* Wealth-management simulator: the game engine (simulator.py) and the     *)
(* session logic of the Streamlit front end (app.py).                      *)
(*                                                                         *)
(* Number representation.                                                  *)
(*   - Emotional values, traits and deltas are Python ints: integers.      *)
(*   - Allocation fractions are exact rationals with a common denominator: *)
(*     portfolio = [stocks, bonds, cash, den], fraction k = portfolio[k] / *)
(*     den, kept in lowest terms.  Shifts are in hundredths.               *)
(*   - Market returns are in basis points (1e-4); a portfolio return is    *)
(*     the exact rational [num, den] basis points.                         *)
(*   - int(x) of a float expression is Trunc of the exact value.  Where    *)
(*     the exact value sits on a tie (an exact integer, or equality in a   *)
(*     comparison) the IEEE result depends on accumulated rounding error:  *)
(*     such places take a parameter fp \in FpErr, the sign of that error.  *)
(*     In calculate_full_turn_deltas the products of steps 1 and 4 agree   *)
(*     with IEEE doubles for every trait value Client.__init__ can draw    *)
(*     and every running delta the tables can produce, so no fp is taken.  *)
(*     The fractions apply_recommendation leaves are quotients rounded to  *)
(*     doubles: the model keeps their exact values, and the sign of the    *)
(*     error of their float sum against 1.0 is such an fp.                 *)
(*   - portfolio_value is kept in whole dollars.                           *)
(*   - random is a deterministic generator: rng is its state, every draw   *)
(*     advances it.                                                        *)
(***************************************************************************)
EXTENDS Integers, Sequences, FiniteSets, TLC

VARIABLES
    session_state,  \* st.session_state: a mapping from keys to values
    rng,            \* state of the process-wide random generator
    market_calls,   \* history: generate_market_turn invocations since init_game began
    screen,         \* what the last script run rendered / raised
    subject,        \* the Client object under test (function-level specifications)
    call            \* the last engine call made on it, with its result

vars == <<session_state, rng, market_calls, screen, subject, call>>

\* ───────────────────────── bounds of the model ─────────────────────────
RngPeriod == 6       \* period of the random generator
MaxTurns == 3        \* clicks of "Submit" explored per session
MaxCalls == 3        \* apply_emotion_deltas calls explored in a row
MaxRecs == 5         \* apply_recommendation calls explored in a row
AllocDepth == 1      \* recommendations behind the allocations given to the delta function
MaxLog == 3          \* length of the turn logs given to the scoring function
MaxSubScore == 3     \* largest magnitude of a sub-score in a grader's reply
\* largest running delta handed to the trait multipliers on their own
MaxDelta == 30
\* longest log scored for its risk component (six bad moves reach the floor)
MaxRiskLog == 6

\* ───────────────────────── utility functions ──────────────────────────
Min2(a, b) == IF a <= b THEN a ELSE b
Max2(a, b) == IF a >= b THEN a ELSE b

clamp(value, minimum, maximum) == Max2(minimum, Min2(maximum, value))

\* int(): truncation toward zero of num/den, den > 0
Trunc(num, den) == IF num >= 0 THEN num \div den ELSE -((-num) \div den)

FpErr == {-1, 0, 1}

\* int() of a non-negative float whose exact value is num/den and whose
\* rounding error has sign e: on an exact integer a negative error loses one.
TruncF(num, den, e) ==
    IF num % den = 0 /\ num > 0 /\ e < 0 THEN num \div den - 1 ELSE num \div den

RECURSIVE GCD(_, _)
GCD(a, b) == IF b = 0 THEN a ELSE GCD(b, a % b)


\* ───────────────────────── random ──────────────────────────────────────
\* The generator: a state that steps through RngPeriod values and an output
\* function that scrambles it.
random_step(r) == (r + 1) % RngPeriod

RECURSIVE random_after(_, _)
random_after(r, k) == IF k = 0 THEN r ELSE random_after(random_step(r), k - 1)

random_output(r) == ((r * r + 1) * 7919 + r * 104723) % 65537

\* the value of the k-th draw made from state r
randint(r, k, lo, hi) == lo + (random_output(random_after(r, k)) % (hi - lo + 1))
choice(r, k, seq) == seq[1 + (random_output(random_after(r, k)) % Len(seq))]
uniform(r, k, lo, hi) == randint(r, k, lo, hi)

RngStates == 0..(RngPeriod - 1)

\* ───────────────────────── Client ──────────────────────────────────────
NAMES == <<"Michael", "Sofia", "Jordan", "Ava", "Ethan", "Maya", "Carlos", "Priya">>

GOALS == <<"retirement at age 65", "buying a home in 5 years",
           "funding their children's college", "building generational wealth",
           "achieving financial independence">>

RISK_TOLERANCES == <<"low", "medium", "high">>

Reduce(p) ==
    LET g == GCD(GCD(GCD(p.stocks, p.bonds), p.cash), p.den)
    IN  [stocks |-> p.stocks \div g, bonds |-> p.bonds \div g,
         cash |-> p.cash \div g, den |-> p.den \div g]

InitialPortfolio == Reduce([stocks |-> 70, bonds |-> 25, cash |-> 5, den |-> 100])

\* Client.__init__: eleven draws, in source order
Client__init__(r) ==
    [loss_aversion      |-> randint(r, 1, 40, 90),
     trust_propensity   |-> randint(r, 2, 30, 75),
     control_preference |-> randint(r, 3, 20, 80),
     recency_bias       |-> randint(r, 4, 30, 85),
     risk_tolerance     |-> choice(r, 5, RISK_TOLERANCES),
     name               |-> choice(r, 6, NAMES),
     goal               |-> choice(r, 7, GOALS),
     anxiety            |-> randint(r, 8, 30, 50),
     trust              |-> randint(r, 9, 45, 65),
     satisfaction       |-> randint(r, 10, 45, 65),
     engagement         |-> randint(r, 11, 50, 70),
     portfolio          |-> InitialPortfolio]

EmotionsNoClamp(c, d_trust, d_anxiety, d_satisfaction, d_engagement) ==
    [c EXCEPT !.trust        = c.trust + d_trust,
              !.anxiety      = c.anxiety + d_anxiety,
              !.satisfaction = c.satisfaction + d_satisfaction,
              !.engagement   = c.engagement + d_engagement]

\* the client after Client.apply_emotion_deltas
EmotionsAfter(c, d_trust, d_anxiety, d_satisfaction, d_engagement) ==
    [c EXCEPT !.trust        = clamp(c.trust + d_trust, 0, 100),
              !.anxiety      = clamp(c.anxiety + d_anxiety, 0, 100),
              !.satisfaction = clamp(c.satisfaction + d_satisfaction, 0, 100),
              !.engagement   = clamp(c.engagement + d_engagement, 0, 100)]

RequestedDeltas(old, new, d_trust, d_anxiety, d_satisfaction, d_engagement) ==
    [trust |-> d_trust, anxiety |-> d_anxiety,
     satisfaction |-> d_satisfaction, engagement |-> d_engagement]

\* the dict Client.apply_emotion_deltas returns
RealizedDeltas(old, new, d_trust, d_anxiety, d_satisfaction, d_engagement) ==
    [trust        |-> new.trust - old.trust,
     anxiety      |-> new.anxiety - old.anxiety,
     satisfaction |-> new.satisfaction - old.satisfaction,
     engagement   |-> new.engagement - old.engagement]

\* the four emotional values of a client
Emotions(c) == [trust |-> c.trust, anxiety |-> c.anxiety,
                satisfaction |-> c.satisfaction, engagement |-> c.engagement]

\* Client.apply_emotion_deltas: the mutated client and the returned dict
apply_emotion_deltas(c, d_trust, d_anxiety, d_satisfaction, d_engagement) ==
    LET new == EmotionsAfter(c, d_trust, d_anxiety, d_satisfaction, d_engagement)
    IN  [client  |-> new,
         changes |-> RealizedDeltas(c, new, d_trust, d_anxiety,
                                    d_satisfaction, d_engagement)]

adherence_score(c) ==
    \* 50 + 0.5 t - 0.4 a - 0.2 (cp - 50), in tenths
    clamp(Trunc(500 + 5 * c.trust - 4 * c.anxiety - 2 * (c.control_preference - 50), 10),
          0, 100)

\* the at-risk rule tried before the crisis rule
status_label_at_risk_first(c) ==
    IF c.trust + c.satisfaction + c.engagement < 120 \/ c.trust < 30
    THEN "At Risk of Leaving"
    ELSE IF c.anxiety > 75 THEN "Crisis Mode"
    ELSE IF c.trust + c.satisfaction + c.engagement > 210 /\ c.anxiety < 40
    THEN "Strong Relationship"
    ELSE "Stable"

\* Client.status_label; avg = (trust + satisfaction + engagement) / 3 is
\* compared through the sum (210 / 3 and 120 / 3 are exact in doubles)
status_label(c) ==
    LET sum3 == c.trust + c.satisfaction + c.engagement
    IN  IF c.anxiety > 75 THEN "Crisis Mode"
        ELSE IF sum3 > 210 /\ c.anxiety < 40 THEN "Strong Relationship"
        ELSE IF sum3 < 120 \/ c.trust < 30 THEN "At Risk of Leaving"
        ELSE "Stable"

\* ───────────────────────── market engine ───────────────────────────────
REGIME_NAMES == <<"Bull Market", "Bear Market", "Market Crisis", "Recovery",
                  "Sideways / Flat", "Rate Shock">>

\* return ranges in basis points
MARKET_REGIMES ==
    [r \in {REGIME_NAMES[i] : i \in 1..Len(REGIME_NAMES)} |->
        CASE r = "Bull Market" ->
               [description |-> "Strong economic growth, rising stock prices.",
                stocks |-> <<700, 1800>>, bonds |-> <<-100, 400>>, cash |-> <<50, 50>>,
                client_mood_shift |-> -5]
          [] r = "Bear Market" ->
               [description |-> "Broad market decline, investor pessimism.",
                stocks |-> <<-1500, -500>>, bonds |-> <<-200, 600>>, cash |-> <<50, 50>>,
                client_mood_shift |-> 12]
          [] r = "Market Crisis" ->
               [description |-> "Severe selloff. Fear and uncertainty dominate.",
                stocks |-> <<-3000, -1500>>, bonds |-> <<-500, 800>>, cash |-> <<50, 50>>,
                client_mood_shift |-> 25]
          [] r = "Recovery" ->
               [description |-> "Bounce-back after a downturn. Cautious optimism.",
                stocks |-> <<800, 2200>>, bonds |-> <<-200, 500>>, cash |-> <<50, 50>>,
                client_mood_shift |-> -8]
          [] r = "Sideways / Flat" ->
               [description |-> "Low volatility, minimal movement. Boring but stable.",
                stocks |-> <<-300, 400>>, bonds |-> <<-100, 300>>, cash |-> <<50, 50>>,
                client_mood_shift |-> 0]
          [] r = "Rate Shock" ->
               [description |-> "Rising interest rates hurt bonds and growth stocks.",
                stocks |-> <<-1000, 200>>, bonds |-> <<-1200, -400>>, cash |-> <<100, 200>>,
                client_mood_shift |-> 10]]

\* the market turn for a chosen regime, its three returns drawn from state r
MarketOf(regime_name, r) ==
    LET regime == MARKET_REGIMES[regime_name]
    IN  [regime       |-> regime_name,
         description  |-> regime.description,
         stock_return |-> uniform(r, 2, regime.stocks[1], regime.stocks[2]),
         bond_return  |-> uniform(r, 3, regime.bonds[1], regime.bonds[2]),
         cash_return  |-> uniform(r, 4, regime.cash[1], regime.cash[2]),
         mood_shift   |-> regime.client_mood_shift]

\* generate_market_turn: four draws from state r
generate_market_turn(r) == MarketOf(choice(r, 1, REGIME_NAMES), r)

\* weighted return, exact: num / den basis points
calculate_portfolio_return(portfolio, market) ==
    [num |-> portfolio.stocks * market.stock_return
             + portfolio.bonds * market.bond_return
             + portfolio.cash * market.cash_return,
     den |-> portfolio.den]

\* comparisons of a return with a threshold given in basis points
RetLT(ret, bp) == ret.num < bp * ret.den
RetGT(ret, bp) == ret.num > bp * ret.den

\* ───────────────────────── decision engine ─────────────────────────────
\* band (lo, hi) in hundredths
RISK_STOCK_RANGES ==
    [t \in {"low", "medium", "high"} |->
        CASE t = "low" -> <<10, 40>> [] t = "medium" -> <<40, 70>> [] t = "high" -> <<70, 95>>]

COMM_STYLES == <<"Empathize + explain calmly", "Data-focused reassurance",
                 "Firm boundary (stick to the plan)", "Agree and act quickly",
                 "Dismissive / minimize concern">>

COMM_STYLE_EFFECTS ==
    [k \in {COMM_STYLES[i] : i \in 1..Len(COMM_STYLES)} |->
        CASE k = "Empathize + explain calmly" ->
               [d_trust |-> 8, d_anxiety |-> -10, d_satisfaction |-> 5, d_engagement |-> 3]
          [] k = "Data-focused reassurance" ->
               [d_trust |-> 4, d_anxiety |-> -5, d_satisfaction |-> 3, d_engagement |-> 2]
          [] k = "Firm boundary (stick to the plan)" ->
               [d_trust |-> 2, d_anxiety |-> -3, d_satisfaction |-> 1, d_engagement |-> 1]
          [] k = "Agree and act quickly" ->
               [d_trust |-> 3, d_anxiety |-> -6, d_satisfaction |-> 4, d_engagement |-> 2]
          [] k = "Dismissive / minimize concern" ->
               [d_trust |-> -10, d_anxiety |-> 8, d_satisfaction |-> -8, d_engagement |-> -6]]

\* keys as in the source, with "-" for the minus sign and "->" for the arrow
RECOMMENDATIONS == <<"Stay the course (no change)",
                     "Small de-risk (-10% stocks -> bonds)",
                     "Larger de-risk (-20% stocks -> bonds/cash)",
                     "Move heavily to cash (defensive)",
                     "Increase risk (more stocks)">>

\* every recommendation selling everything
RECOMMENDATION_EFFECTS_liquidating ==
    [k \in {RECOMMENDATIONS[i] : i \in 1..Len(RECOMMENDATIONS)} |->
        [stock_shift |-> -100, bond_shift |-> -100, cash_shift |-> -100,
         d_trust |-> 0, d_anxiety |-> 0, d_satisfaction |-> 0]]

\* shifts in hundredths
RECOMMENDATION_EFFECTS ==
    [k \in {RECOMMENDATIONS[i] : i \in 1..Len(RECOMMENDATIONS)} |->
        CASE k = "Stay the course (no change)" ->
               [stock_shift |-> 0, bond_shift |-> 0, cash_shift |-> 0,
                d_trust |-> 2, d_anxiety |-> 0, d_satisfaction |-> 1]
          [] k = "Small de-risk (-10% stocks -> bonds)" ->
               [stock_shift |-> -10, bond_shift |-> 10, cash_shift |-> 0,
                d_trust |-> 3, d_anxiety |-> -5, d_satisfaction |-> 3]
          [] k = "Larger de-risk (-20% stocks -> bonds/cash)" ->
               [stock_shift |-> -20, bond_shift |-> 12, cash_shift |-> 8,
                d_trust |-> 4, d_anxiety |-> -8, d_satisfaction |-> 4]
          [] k = "Move heavily to cash (defensive)" ->
               [stock_shift |-> -35, bond_shift |-> -5, cash_shift |-> 40,
                d_trust |-> 2, d_anxiety |-> -12, d_satisfaction |-> 2]
          [] k = "Increase risk (more stocks)" ->
               [stock_shift |-> 15, bond_shift |-> -10, cash_shift |-> -5,
                d_trust |-> -2, d_anxiety |-> 5, d_satisfaction |-> -2]]

\* the stock shift alone applied
ShiftedStocksOnly(p, effect) ==
    [stocks |-> clamp(100 * p.stocks + effect.stock_shift * p.den, 0, 100 * p.den),
     bonds  |-> 100 * p.bonds,
     cash   |-> 100 * p.cash,
     den    |-> 100 * p.den]

\* the allocation after the shift and the clamp of each fraction to [0, 1],
\* over the denominator 100 * den
ShiftedClamped(p, effect) ==
    [stocks |-> clamp(100 * p.stocks + effect.stock_shift * p.den, 0, 100 * p.den),
     bonds  |-> clamp(100 * p.bonds + effect.bond_shift * p.den, 0, 100 * p.den),
     cash   |-> clamp(100 * p.cash + effect.cash_shift * p.den, 0, 100 * p.den),
     den    |-> 100 * p.den]

\* dividing each fraction by their total, when the total is positive
Normalized(q) ==
    LET total == q.stocks + q.bonds + q.cash
    IN  IF total > 0 THEN Reduce([q EXCEPT !.den = total]) ELSE Reduce(q)

\* apply_recommendation: the portfolio it leaves in the client
apply_recommendation(portfolio, recommendation_key) ==
    Normalized(ShiftedClamped(portfolio, RECOMMENDATION_EFFECTS[recommendation_key]))

\* check_allocation_fit; fp is the sign of the rounding error in stock_pct
\* relative to the band constants
check_allocation_fit(client, fp) ==
    LET band == RISK_STOCK_RANGES[client.risk_tolerance]
        lo   == band[1]
        hi   == band[2]
        n    == client.portfolio.stocks
        den  == client.portfolio.den
        s100 == 100 * n                      \* stock_pct * 100 * den
        low_gap  == lo * den - s100          \* (lo - stock_pct) * 100 * den
        high_gap == s100 - hi * den          \* (stock_pct - hi) * 100 * den
        too_conservative == s100 < (lo - 5) * den \/ (s100 = (lo - 5) * den /\ fp < 0)
        too_aggressive   == s100 > (hi + 5) * den \/ (s100 = (hi + 5) * den /\ fp > 0)
    IN  IF too_conservative
        THEN [d_trust |-> 0, d_anxiety |-> 0,
              d_satisfaction |-> -TruncF(low_gap * 30, 100 * den, -fp),
              d_engagement   |-> -TruncF(low_gap * 20, 100 * den, -fp),
              message |-> "too conservative"]
        ELSE IF too_aggressive
        THEN [d_trust |-> IF client.anxiety > 60
                          THEN -TruncF(high_gap * 25, 100 * den, fp) ELSE 0,
              d_anxiety |-> TruncF(high_gap * 40, 100 * den, fp),
              d_satisfaction |-> -TruncF(high_gap * 15, 100 * den, fp),
              d_engagement |-> 0,
              message |-> "too aggressive"]
        ELSE [d_trust |-> 0, d_anxiety |-> 0, d_satisfaction |-> 0, d_engagement |-> 0,
              message |-> "none"]

\* steps 1-3 of calculate_full_turn_deltas: the running deltas after the
\* market, the communication style and the recommendation
RunningDeltas(client, comm_style_key, recommendation_key, market) ==
    LET comm == COMM_STYLE_EFFECTS[comm_style_key]
        rec  == RECOMMENDATION_EFFECTS[recommendation_key]
        \* 1. market-driven anxiety
        m_anxiety == Trunc(market.mood_shift * client.loss_aversion, 100)
    IN  \* 2, 3. communication style and recommendation
        [d_trust        |-> comm.d_trust + rec.d_trust,
         d_anxiety      |-> m_anxiety + comm.d_anxiety + rec.d_anxiety,
         d_satisfaction |-> comm.d_satisfaction + rec.d_satisfaction,
         d_engagement   |-> comm.d_engagement,
         breakdown      |-> (IF m_anxiety # 0 THEN <<"market">> ELSE <<>>)
                            \o <<"communication", "recommendation">>]

\* trust deltas of either sign scaled
ScaledTrustBothSigns(d_trust, trust_propensity) ==
    Trunc(d_trust * (150 + trust_propensity), 200)

\* 4. trait multipliers: trust_mult = 0.75 + (tp / 100) * 0.5 = (150 + tp) / 200
ScaledTrust(d_trust, trust_propensity) ==
    IF d_trust > 0 THEN Trunc(d_trust * (150 + trust_propensity), 200) ELSE d_trust

\* positive anxiety deltas divided, negative ones multiplied
ScaledAnxietySwapped(d_anxiety, loss_aversion) ==
    IF d_anxiety > 0 THEN Trunc(d_anxiety * 500, 375 + 3 * loss_aversion)
    ELSE IF d_anxiety < 0 THEN Trunc(d_anxiety * (375 + 3 * loss_aversion), 500)
    ELSE d_anxiety

\* anxiety_mult = 0.75 + (la / 100) * 0.6 = (375 + 3 la) / 500
ScaledAnxiety(d_anxiety, loss_aversion) ==
    IF d_anxiety > 0 THEN Trunc(d_anxiety * (375 + 3 * loss_aversion), 500)
    ELSE IF d_anxiety < 0 THEN Trunc(d_anxiety * 500, 375 + 3 * loss_aversion)
    ELSE d_anxiety

\* steps 4 and 5 on the running deltas: the trait multipliers, then the
\* allocation fit added
TurnDeltasFrom(client, running, fit) ==
    [d_trust        |-> ScaledTrust(running.d_trust, client.trust_propensity)
                        + fit.d_trust,
     d_anxiety      |-> ScaledAnxiety(running.d_anxiety, client.loss_aversion)
                        + fit.d_anxiety,
     d_satisfaction |-> running.d_satisfaction + fit.d_satisfaction,
     d_engagement   |-> running.d_engagement + fit.d_engagement,
     breakdown      |-> running.breakdown
                        \o (IF fit.message # "none" THEN <<fit.message>> ELSE <<>>)]

\* steps 1-5 of calculate_full_turn_deltas: the deltas before the final clamps
TurnDeltasRaw(client, comm_style_key, recommendation_key, market, fp) ==
    TurnDeltasFrom(client,
                   RunningDeltas(client, comm_style_key, recommendation_key, market),
                   check_allocation_fit(client, fp))

FinalClampsSkipped(d) == d

\* the final clamps of calculate_full_turn_deltas
FinalClamps(d) ==
    [d EXCEPT !.d_trust        = clamp(d.d_trust, -20, 20),
              !.d_anxiety      = clamp(d.d_anxiety, -25, 25),
              !.d_satisfaction = clamp(d.d_satisfaction, -15, 15),
              !.d_engagement   = clamp(d.d_engagement, -12, 12)]

\* portfolio_return is a parameter the function never reads
calculate_full_turn_deltas(client, comm_style_key, recommendation_key, market, portfolio_return, fp) ==
    FinalClamps(TurnDeltasRaw(client, comm_style_key, recommendation_key, market, fp))

\* ───────────────────────── client intent ───────────────────────────────
\* the rules with the panic rule tried first
get_client_intent_panic_first(client, portfolio_return) ==
    IF client.anxiety >= 65 /\ RetLT(portfolio_return, -500) THEN "panic"
    ELSE IF client.anxiety >= 80 \/ client.trust < 20 THEN "override_threat"
    ELSE IF client.anxiety >= 55 \/ RetLT(portfolio_return, -300) THEN "concerned"
    ELSE IF RetGT(portfolio_return, 800) /\ client.recency_bias > 65 THEN "greedy"
    ELSE IF client.trust > 70 /\ client.satisfaction > 65 THEN "confident_checkin"
    ELSE "neutral_checkin"

get_client_intent(client, portfolio_return) ==
    IF client.anxiety >= 80 \/ client.trust < 20 THEN "override_threat"
    ELSE IF client.anxiety >= 65 /\ RetLT(portfolio_return, -500) THEN "panic"
    ELSE IF client.anxiety >= 55 \/ RetLT(portfolio_return, -300) THEN "concerned"
    ELSE IF RetGT(portfolio_return, 800) /\ client.recency_bias > 65 THEN "greedy"
    ELSE IF client.trust > 70 /\ client.satisfaction > 65 THEN "confident_checkin"
    ELSE "neutral_checkin"

INTENTS == {"override_threat", "panic", "concerned", "greedy",
            "confident_checkin", "neutral_checkin"}

\* get_scenario_context.  The formatted return, the intent description and
\* the three *_pct fields are strings/ints derived for the prompt text only;
\* the return is kept as the number it formats.
get_scenario_context(client, market, portfolio_return, turn_number) ==
    [intent         |-> get_client_intent(client, portfolio_return),
     client_name    |-> client.name,
     client_goal    |-> client.goal,
     risk_tolerance |-> client.risk_tolerance,
     loss_aversion  |-> client.loss_aversion,
     anxiety        |-> client.anxiety,
     trust          |-> client.trust,
     satisfaction   |-> client.satisfaction,
     portfolio_return |-> portfolio_return,
     portfolio_value_direction |-> IF portfolio_return.num >= 0 THEN "gained" ELSE "lost",
     regime         |-> market.regime,
     regime_description |-> market.description,
     turn_number    |-> turn_number]

\* ───────────────────────── external collaborators (app.py) ─────────────
\* A turn's outcome of the text-generation service: "down" (any exception),
\* or up with the grader's raw reply: not JSON, or a JSON object with the four
\* sub-scores as the model wrote them.
GroqDown == [up |-> FALSE]
GroqUp(reply) == [up |-> TRUE, reply |-> reply]
NotJson == [json |-> FALSE]
\* a JSON reply holds the four sub-scores; feedback tells whether it also
\* holds the "feedback" sentence the prompt asks for
Json(e, c, a, p) == [json |-> TRUE, empathy |-> e, clarity |-> c,
                     alignment |-> a, professionalism |-> p, feedback |-> TRUE]
JsonNoFeedback(e, c, a, p) == [Json(e, c, a, p) EXCEPT !.feedback = FALSE]

\* generate_client_message_ai with _fallback_client_message: the text is opaque,
\* what is kept is where it came from and the context it was written for
generate_client_message_ai(context, groq) ==
    [source |-> IF groq.up THEN "ai" ELSE "fallback",
     intent |-> context.intent, turn_number |-> context.turn_number]

generate_market_commentary_ai(market, portfolio_return, client_name, groq) ==
    [source |-> IF groq.up THEN "ai" ELSE "fallback",
     regime |-> market.regime, portfolio_return |-> portfolio_return]

None == [none |-> TRUE]
IsNone(x) == "none" \in DOMAIN x

\* the service asked whatever the length of the text
grade_free_text_ai_asking(text_len) == 1

\* requests grade_free_text_ai sends to the service: it returns before
\* Groq() when the text is too short
grade_free_text_ai_requests(text_len) == IF text_len < 10 THEN 0 ELSE 1

\* a reply with a sub-score outside [-2,2] discarded like a failure
grade_free_text_ai_rejecting(text_len, context, intent, groq) ==
    IF text_len < 10 THEN None
    ELSE IF ~groq.up THEN None
    ELSE IF ~groq.reply.json THEN None
    ELSE IF \E k \in {"empathy", "clarity", "alignment", "professionalism"} :
               groq.reply[k] < -2 \/ groq.reply[k] > 2
    THEN None
    ELSE [empathy |-> groq.reply.empathy, clarity |-> groq.reply.clarity,
          alignment |-> groq.reply.alignment,
          professionalism |-> groq.reply.professionalism,
          feedback |-> groq.reply.feedback,
          d_trust        |-> clamp(Trunc((groq.reply.empathy + groq.reply.clarity
                               + groq.reply.alignment + groq.reply.professionalism) * 8, 10),
                                   -6, 6),
          d_anxiety      |-> clamp(Trunc(-(groq.reply.empathy + groq.reply.clarity
                               + groq.reply.alignment + groq.reply.professionalism) * 6, 10),
                                   -5, 5),
          d_satisfaction |-> clamp(Trunc((groq.reply.empathy + groq.reply.clarity
                               + groq.reply.alignment + groq.reply.professionalism) * 5, 10),
                                   -4, 4)]

\* the sub-scores taken as the service wrote them, not clamped to [-2,2]
grade_free_text_ai_scores_unclamped(text_len, context, intent, groq) ==
    IF text_len < 10 THEN None
    ELSE IF ~groq.up THEN None
    ELSE IF ~groq.reply.json THEN None
    ELSE LET e == groq.reply.empathy
             c == groq.reply.clarity
             a == groq.reply.alignment
             p == groq.reply.professionalism
             total == e + c + a + p
         IN  [empathy |-> e, clarity |-> c, alignment |-> a, professionalism |-> p,
              feedback |-> groq.reply.feedback,
              d_trust        |-> clamp(Trunc(total * 8, 10), -6, 6),
              d_anxiety      |-> clamp(Trunc(-total * 6, 10), -5, 5),
              d_satisfaction |-> clamp(Trunc(total * 5, 10), -4, 4)]

\* grade_free_text_ai; user_text is given by the length of its stripped text.
\* The result is the reply's own dict with the deltas added: it holds
\* "feedback" only when the reply did
grade_free_text_ai(text_len, context, intent, groq) ==
    IF text_len < 10 THEN None
    ELSE IF ~groq.up THEN None
    ELSE IF ~groq.reply.json THEN None
    ELSE LET e == clamp(groq.reply.empathy, -2, 2)
             c == clamp(groq.reply.clarity, -2, 2)
             a == clamp(groq.reply.alignment, -2, 2)
             p == clamp(groq.reply.professionalism, -2, 2)
             total == e + c + a + p
         IN  [empathy |-> e, clarity |-> c, alignment |-> a, professionalism |-> p,
              feedback |-> groq.reply.feedback,
              d_trust        |-> clamp(Trunc(total * 8, 10), -6, 6),
              d_anxiety      |-> clamp(Trunc(-total * 6, 10), -5, 5),
              d_satisfaction |-> clamp(Trunc(total * 5, 10), -4, 4)]

\* ───────────────────────── career scoring ──────────────────────────────
\* every move out of stocks counted as a panic move
IsPanicMoveAnyDeRisk(recommendation) ==
    recommendation \in {"Small de-risk (-10% stocks -> bonds)",
                        "Larger de-risk (-20% stocks -> bonds/cash)",
                        "Move heavily to cash (defensive)"}

\* "heavily to cash" in recommendation.lower()
IsPanicMove(recommendation) == recommendation = "Move heavily to cash (defensive)"
\* "increase risk" in recommendation.lower()
IsIncreaseRisk(recommendation) == recommendation = "Increase risk (more stocks)"
\* any(good in comm_style for good in ["Empathize", "Data-focused", "Firm boundary"])
IsGoodCrisisComm(comm_style) ==
    comm_style \in {"Empathize + explain calmly", "Data-focused reassurance",
                    "Firm boundary (stick to the plan)"}

STARTING_VALUE == 100000

\* a >= b between floats whose exact values are a and b, rounding error of sign e
GeF(a, b, e) == a > b \/ (a = b /\ e >= 0)

\* sign of the rounding error of the doubles 0.025 * turns and
\* 0.025 * turns * 1.2 for the 1..10 turns a log can hold: both lie one unit
\* in the last place above turns/40 and 3*turns/100 for 3, 6 and 7 turns
\* (0.07500000000000001, 0.15000000000000002, 0.17500000000000002) and
\* compare equal to the double of the exact quotient otherwise
benchmark_return_err(turns) == IF turns \in {3, 6, 7} THEN 1 ELSE 0

EmptyDict == [k \in {} |-> 0]

\* the four sub-scores added up as they are
FinalScoreUnweighted(portfolio_score, rel100, risk_score, crisis_score, fp) ==
    portfolio_score + TruncF(rel100, 100, fp) + risk_score + crisis_score

\* the final weighted score and its clamp; rel100 is relationship_score * 100
FinalScore(portfolio_score, rel100, risk_score, crisis_score, fp) ==
    clamp(TruncF(2500 * portfolio_score + 35 * rel100
                 + 2500 * risk_score + 1500 * crisis_score, 10000, fp), 0, 100)

\* a score whose relationship component reads the trust_propensity trait
calculate_career_score_by_traits(log, client, final_portfolio_value, fp) ==
    IF Len(log) = 0 THEN [final_score |-> 0, breakdown |-> EmptyDict]
    ELSE [final_score |->
             FinalScore(60, 35 * client.trust_propensity + 30 * client.satisfaction
                            + 20 * (100 - client.anxiety) + 15 * client.engagement,
                        100, 70, fp),
          breakdown |-> EmptyDict]

\* calculate_career_score, starting_value at its default; the pair it returns
calculate_career_score(log, client, final_portfolio_value, fp) ==
    IF Len(log) = 0 THEN [final_score |-> 0, breakdown |-> EmptyDict]
    ELSE
    LET gain  == final_portfolio_value - STARTING_VALUE   \* total_return * start
        turns == Len(log)
        \* benchmark_return * start = 2500 * turns; * 1.2 = 3000 * turns
        \* total_return is the double nearest gain / start; the benchmarks are
        \* doubles that may lie above it at a tie; -0.10 is the nearest double
        portfolio_score ==
            IF GeF(gain, 3000 * turns, -benchmark_return_err(turns)) THEN 100
            ELSE IF GeF(gain, 2500 * turns, -benchmark_return_err(turns)) THEN 80
            ELSE IF gain >= 0 THEN 60
            ELSE IF gain >= -10000 THEN 35
            ELSE 10
        \* relationship_score * 100
        rel100 == 35 * client.trust + 30 * client.satisfaction
                  + 20 * (100 - client.anxiety) + 15 * client.engagement
        IsPanic(e) == IsPanicMove(e.recommendation)
        IsSwing(e) == IsIncreaseRisk(e.recommendation)
                      /\ e.regime \in {"Bear Market", "Market Crisis"}
        IsCrisis(e) == e.regime \in {"Bear Market", "Market Crisis", "Rate Shock"}
        IsGoodCrisis(e) == IsCrisis(e) /\ IsGoodCrisisComm(e.comm_style)
        panic_moves == Cardinality({i \in DOMAIN log : IsPanic(log[i])})
        aggressive_swings == Cardinality({i \in DOMAIN log : IsSwing(log[i])})
        risk_score == Max2(0, 100 - 20 * (panic_moves + aggressive_swings))
        crisis_turns == Cardinality({i \in DOMAIN log : IsCrisis(log[i])})
        good_crisis_comms == Cardinality({i \in DOMAIN log : IsGoodCrisis(log[i])})
        crisis_score == IF crisis_turns = 0 THEN 70
                        ELSE (100 * good_crisis_comms) \div crisis_turns
    IN  [final_score |-> FinalScore(portfolio_score, rel100, risk_score, crisis_score, fp),
         breakdown |->
            [portfolio_score    |-> portfolio_score,
             relationship_score |-> TruncF(rel100, 100, fp),
             risk_score         |-> risk_score,
             crisis_score       |-> crisis_score,
             total_return_pct   |-> Trunc(gain, 100),   \* tenths of a percent, digits beyond dropped
             benchmark_pct      |-> 25 * turns,         \* in tenths of a percent
             panic_moves        |-> panic_moves,
             crisis_turns       |-> crisis_turns]]

CAREER_TITLES == <<
    <<90, "Senior Partner">>, <<75, "Vice President">>, <<60, "Associate Advisor">>,
    <<45, "Junior Advisor">>, <<0, "Probationary Advisor">> >>

RECURSIVE TitleFrom(_, _)
TitleFrom(score, i) ==
    IF i > Len(CAREER_TITLES) THEN CAREER_TITLES[Len(CAREER_TITLES)][2]
    ELSE IF score >= CAREER_TITLES[i][1] THEN CAREER_TITLES[i][2]
    ELSE TitleFrom(score, i + 1)

get_career_title(score) == TitleFrom(score, 1)

Raised(exception) == [raised |-> exception]
HasRaised(x) == "raised" \in DOMAIN x

\* generate_performance_feedback; breakdown["portfolio_score"] is its first read
generate_performance_feedback(breakdown, client, log) ==
    IF "portfolio_score" \notin DOMAIN breakdown THEN Raised("KeyError")
    ELSE
    [strengths |->
        (IF breakdown.portfolio_score >= 80 THEN <<"portfolio">> ELSE <<>>)
        \o (IF breakdown.relationship_score >= 70 THEN <<"relationship">> ELSE <<>>)
        \o (IF breakdown.risk_score >= 80 THEN <<"risk">> ELSE <<>>)
        \o (IF breakdown.crisis_score >= 75 THEN <<"crisis">> ELSE <<>>),
     improvements |->
        (IF breakdown.portfolio_score < 60 THEN <<"portfolio">> ELSE <<>>)
        \o (IF breakdown.relationship_score < 55 THEN <<"relationship">> ELSE <<>>)
        \o (IF breakdown.panic_moves > 0 THEN <<"panic moves">> ELSE <<>>)
        \o (IF breakdown.crisis_score < 50 /\ breakdown.crisis_turns > 0
            THEN <<"crisis">> ELSE <<>>),
     key_insight |->
        IF breakdown.panic_moves > 1 THEN "stay invested"
        ELSE IF breakdown.relationship_score < 50 THEN "communication"
        ELSE IF breakdown.portfolio_score >= 80 /\ breakdown.relationship_score >= 70
        THEN "praise"
        ELSE "behavioral psychology"]

\* ───────────────────────── session (app.py) ────────────────────────────
TURN_LIMIT == 10

\* the session state init_game writes for the client and market it made
NewSession(client, market, groq) ==
    LET port_return == calculate_portfolio_return(client.portfolio, market)
        context == get_scenario_context(client, market, port_return, 1)
    IN  [client            |-> client,
         turn              |-> 1,
         portfolio_value   |-> 100000,
         log               |-> <<>>,
         market            |-> market,
         portfolio_return  |-> port_return,
         context           |-> context,
         client_message    |-> generate_client_message_ai(context, groq),
         market_commentary |-> generate_market_commentary_ai(market, port_return,
                                                             client.name, groq),
         submitted         |-> FALSE,
         last_feedback     |-> None,
         game_over         |-> FALSE,
         started           |-> FALSE,
         mode              |-> "None"]

\* init_game: Client() takes draws 1-11 of state r, generate_market_turn
\* draws 12-15
init_game(r, groq) ==
    NewSession(Client__init__(r), generate_market_turn(random_after(r, 11)), groq)

\* portfolio_value *= (1 + port_ret), in whole dollars
Grown(value, ret) == value + Trunc(value * Trunc(ret.num, ret.den), 10000)

\* the intro screen, the main game screen and the game over screen, as rendered
IntroScreen == [page |-> "intro"]

MainScreen(ss) ==
    [page |-> "main", turn |-> ss.turn, market |-> ss.market,
     portfolio_return |-> ss.portfolio_return, portfolio_value |-> ss.portfolio_value,
     status |-> status_label(ss.client), adherence |-> adherence_score(ss.client),
     client_message |-> ss.client_message]

\* the game over screen for the score, breakdown and feedback computed, or
\* the exception that computing the feedback raised
GameOverReport(log, final_score, breakdown, feedback) ==
    IF HasRaised(feedback)
    THEN [page |-> "exception", exception |-> feedback.raised]
    ELSE [page |-> "game_over", final_score |-> final_score,
          title |-> get_career_title(final_score),
          breakdown |-> breakdown, feedback |-> feedback,
          turns |-> Len(log)]

GameOverScored(ss, scored) ==
    GameOverReport(ss.log, scored.final_score, scored.breakdown,
                   generate_performance_feedback(scored.breakdown, ss.client, ss.log))

\* the script going on to the main game screen with the session at game over
GameOverScreenNotStopped(ss, fp) == MainScreen(ss)

GameOverScreen(ss, fp) ==
    GameOverScored(ss, calculate_career_score(ss.log, ss.client, ss.portfolio_value, fp))

\* one run of the script on session state ss (after the init_game check)
Render(ss, fp) ==
    IF ~ss.started THEN IntroScreen
    ELSE IF ss.game_over THEN GameOverScreen(ss, fp)
    ELSE MainScreen(ss)

\* market and port_ret as the main screen's script run reads them
SubmitMarketRegenerated(ss, r) == generate_market_turn(r)
SubmitMarket(ss, r) == ss.market
SubmitReturn(ss) == ss.portfolio_return

LogReplaced(log, entry) == <<entry>>
LogAppended(log, entry) == Append(log, entry)

\* the turn limit tested one turn late
TurnEndsGameAfterLimit(turn, client) ==
    turn > TURN_LIMIT \/ client.trust < 15 \/ client.engagement < 10

TurnEndsGame(turn, client) ==
    turn >= TURN_LIMIT \/ client.trust < 15 \/ client.engagement < 10

\* a recommendation that also calms the client by five points
MovedAndCalmed(client, recommendation) ==
    [client EXCEPT !.portfolio = apply_recommendation(client.portfolio, recommendation),
                   !.anxiety = clamp(client.anxiety - 5, 0, 100)]

\* apply_recommendation(client, recommendation): the client it leaves
Moved(client, recommendation) ==
    [client EXCEPT !.portfolio = apply_recommendation(client.portfolio, recommendation)]

\* text_grades: graded only when the stripped text has 10 characters or more
TextGrades(ss, text_len, groq) ==
    IF text_len >= 10
    THEN grade_free_text_ai(text_len, ss.context, ss.context.intent, groq)
    ELSE None

\* requests the submit logic sends to the grading service
TextGradeRequests(text_len) ==
    IF text_len >= 10 THEN grade_free_text_ai_requests(text_len) ELSE 0

\* the text grades' deltas taking the place of the engine's
SubmitTotalsReplaced(market, port_ret, value, moved, base, text_grades) ==
    [market |-> market, port_ret |-> port_ret, value |-> value,
     moved |-> moved, base |-> base, text_grades |-> text_grades,
     breakdown |-> base.breakdown
                   \o (IF IsNone(text_grades) THEN <<>> ELSE <<"written response">>),
     requested |->
        [trust        |-> IF IsNone(text_grades) THEN base.d_trust
                          ELSE text_grades.d_trust,
         anxiety      |-> IF IsNone(text_grades) THEN base.d_anxiety
                          ELSE text_grades.d_anxiety,
         satisfaction |-> IF IsNone(text_grades) THEN base.d_satisfaction
                          ELSE text_grades.d_satisfaction,
         engagement   |-> base.d_engagement]]

\* the deltas about to be requested of apply_emotion_deltas: the engine's,
\* plus the text grades' when there are any
SubmitTotals(market, port_ret, value, moved, base, text_grades) ==
    [market |-> market, port_ret |-> port_ret, value |-> value,
     moved |-> moved, base |-> base, text_grades |-> text_grades,
     breakdown |-> base.breakdown
                   \o (IF IsNone(text_grades) THEN <<>> ELSE <<"written response">>),
     requested |->
        [trust        |-> base.d_trust
                          + (IF IsNone(text_grades) THEN 0 ELSE text_grades.d_trust),
         anxiety      |-> base.d_anxiety
                          + (IF IsNone(text_grades) THEN 0 ELSE text_grades.d_anxiety),
         satisfaction |-> base.d_satisfaction
                          + (IF IsNone(text_grades) THEN 0 ELSE text_grades.d_satisfaction),
         engagement   |-> base.d_engagement]]

SubmitDeltas(ss, market, port_ret, moved, comm_style, recommendation, text_grades, fp) ==
    SubmitTotals(market, port_ret, Grown(ss.portfolio_value, port_ret), moved,
                 calculate_full_turn_deltas(moved, comm_style, recommendation,
                                            market, port_ret, fp),
                 text_grades)

\* the turn's deltas computed before the recommendation was applied
SubmitRequestBeforeMove(ss, r, comm_style, recommendation, text_len, groq, fp) ==
    SubmitTotals(SubmitMarket(ss, r), SubmitReturn(ss),
                 Grown(ss.portfolio_value, SubmitReturn(ss)),
                 Moved(ss.client, recommendation),
                 calculate_full_turn_deltas(ss.client, comm_style, recommendation,
                                            SubmitMarket(ss, r), SubmitReturn(ss), fp),
                 TextGrades(ss, text_len, groq))

\* the shared submit logic up to the call of apply_emotion_deltas: what it
\* computed and the deltas it is about to request
SubmitRequest(ss, r, comm_style, recommendation, text_len, groq, fp) ==
    SubmitDeltas(ss, SubmitMarket(ss, r), SubmitReturn(ss),
                 Moved(ss.client, recommendation), comm_style, recommendation,
                 TextGrades(ss, text_len, groq), fp)

\* the log entry holding the deltas requested, not the changes returned
SubmittedLoggingRequested(ss, q, comm_style, recommendation) ==
    LET applied == apply_emotion_deltas(q.moved, q.requested.trust, q.requested.anxiety,
                                        q.requested.satisfaction, q.requested.engagement)
    IN  [ss EXCEPT
            !.portfolio_value = q.value,
            !.client = applied.client,
            !.last_feedback =
                [breakdown      |-> q.breakdown,
                 changes        |-> applied.changes,
                 comm_style     |-> comm_style,
                 recommendation |-> recommendation,
                 new_allocation |-> applied.client.portfolio,
                 text_grades    |-> q.text_grades],
            !.log = LogAppended(ss.log,
                [turn              |-> ss.turn,
                 regime            |-> q.market.regime,
                 portfolio_return  |-> q.port_ret,
                 portfolio_value   |-> q.value,
                 comm_style        |-> comm_style,
                 recommendation    |-> recommendation,
                 emotional_changes |-> q.requested])]

\* the shared submit logic from apply_emotion_deltas up to and including the
\* log append: the session state before the game-over test
Submitted(ss, q, comm_style, recommendation) ==
    LET applied == apply_emotion_deltas(q.moved, q.requested.trust, q.requested.anxiety,
                                        q.requested.satisfaction, q.requested.engagement)
    IN  [ss EXCEPT
            !.portfolio_value = q.value,
            !.client = applied.client,
            !.last_feedback =
                [breakdown      |-> q.breakdown,
                 changes        |-> applied.changes,
                 comm_style     |-> comm_style,
                 recommendation |-> recommendation,
                 new_allocation |-> applied.client.portfolio,
                 text_grades    |-> q.text_grades],
            !.log = LogAppended(ss.log,
                [turn              |-> ss.turn,
                 regime            |-> q.market.regime,
                 portfolio_return  |-> q.port_ret,
                 portfolio_value   |-> q.value,
                 comm_style        |-> comm_style,
                 recommendation    |-> recommendation,
                 emotional_changes |-> applied.changes])]

\* text_grades['feedback'] read for the breakdown line: a KeyError when the
\* graded reply held no "feedback"
FeedbackRaises(text_grades) == ~IsNone(text_grades) /\ ~text_grades.feedback

\* the session state the submit logic leaves when that line raises: the
\* portfolio value and the allocation are already written, nothing else is
Interrupted(ss, q) == [ss EXCEPT !.portfolio_value = q.value, !.client = q.moved]

\* the main screen as rendered before the submit logic ran, with the
\* exception under it
MainScreenRaised(ss, exception) ==
    [page |-> "main", turn |-> ss.turn, market |-> ss.market,
     portfolio_return |-> ss.portfolio_return, portfolio_value |-> ss.portfolio_value,
     status |-> status_label(ss.client), adherence |-> adherence_score(ss.client),
     client_message |-> ss.client_message, exception |-> exception]

\* the allocation the turn began with, the one its cached return was
\* computed from: the current one, unless a run of the submit logic raised
\* after moving it
TurnAllocation(ss, c) ==
    IF c.op = "Submit raised" THEN c.turn_allocation ELSE ss.client.portfolio

\* the client's emotional state when the session began: the current one
\* until the first click, kept from then on
SessionStart(ss, c) == IF "start" \in DOMAIN c THEN c.start ELSE Emotions(ss.client)

\* submitted turns of the session that ended in an exception so far
RaisedSoFar(c) == IF "raises" \in DOMAIN c THEN c.raises ELSE 0

\* the next turn's session state for the market generated for it
NextTurn(ss, new_market, groq) ==
    LET new_port_ret == calculate_portfolio_return(ss.client.portfolio, new_market)
        new_context  == get_scenario_context(ss.client, new_market, new_port_ret,
                                             ss.turn + 1)
    IN  [ss EXCEPT
            !.turn = ss.turn + 1,
            !.market = new_market,
            !.portfolio_return = new_port_ret,
            !.context = new_context,
            !.client_message = generate_client_message_ai(new_context, groq),
            !.market_commentary = generate_market_commentary_ai(new_market, new_port_ret,
                                                                ss.client.name, groq),
            !.submitted = FALSE]

\* the rest of the submit logic when the game goes on
Advanced(ss, r, groq) == NextTurn(ss, generate_market_turn(r), groq)

KeysKept(ss) == ss
\* for key in list(st.session_state.keys()): del st.session_state[key]
KeysDeleted(ss) == EmptyDict

NoSubject == [none |-> TRUE]
NoCall == [op |-> "none"]
NoSession == EmptyDict
NoScreen == [page |-> "none"]

\* ── actions ──
\* first script run of the process: init_game, then the intro screen
Init ==
    /\ \E r \in RngStates, groq \in {GroqDown, GroqUp(NotJson)} :
          /\ rng = random_after(r, 15)
          /\ session_state = init_game(r, groq)
    /\ market_calls = 1
    /\ screen = IntroScreen
    /\ subject = NoSubject
    /\ call = NoCall

\* "Start Learning Mode" / "Start Simulation Mode"
StartMode(mode) ==
    /\ screen.page = "intro"
    /\ session_state' = [session_state EXCEPT !.mode = mode, !.started = TRUE]
    /\ screen' = MainScreen(session_state')
    /\ call' = [op |-> "Start Mode", raises |-> RaisedSoFar(call),
                start |-> SessionStart(session_state, call)]
    /\ UNCHANGED <<rng, market_calls, subject>>

\* "End & See Score" / "End Simulation", and the game over screen it leads to
EndSession(fp) ==
    /\ screen.page = "main"
    /\ session_state' = [session_state EXCEPT !.game_over = TRUE]
    /\ screen' = GameOverScreen(session_state', fp)
    /\ call' = [op |-> "End", fp |-> fp, raises |-> RaisedSoFar(call),
                start |-> SessionStart(session_state, call)]
    /\ UNCHANGED <<rng, market_calls, subject>>

\* "Submit": the shared submit logic and the rerun that follows, or the
\* exception that stops the script run at the breakdown line
SubmitClicked(comm_style, recommendation, text_len, groq, fp) ==
    /\ screen.page = "main"
    /\ \E q \in {SubmitRequest(session_state, rng, comm_style, recommendation,
                               text_len, groq, fp)} :
       IF FeedbackRaises(q.text_grades)
       THEN /\ session_state' = Interrupted(session_state, q)
            /\ screen' = MainScreenRaised(session_state, "KeyError")
            /\ call' = [op |-> "Submit raised", raises |-> RaisedSoFar(call) + 1,
                        turn_allocation |-> TurnAllocation(session_state, call),
                        start |-> SessionStart(session_state, call),
                        text_len |-> text_len, groq |-> groq, fp |-> fp,
                        before |-> Emotions(session_state.client), base |-> q.base,
                        grader_requests |-> TextGradeRequests(text_len)]
            /\ UNCHANGED <<rng, market_calls>>
       ELSE
       \E done \in {Submitted(session_state, q, comm_style, recommendation)} :
          /\ IF TurnEndsGame(done.turn, done.client)
             THEN /\ session_state' = [done EXCEPT !.game_over = TRUE]
                  /\ screen' = GameOverScreen(session_state', fp)
                  /\ UNCHANGED <<rng, market_calls>>
             ELSE /\ session_state' = Advanced(done, rng, groq)
                  /\ screen' = MainScreen(session_state')
                  /\ rng' = random_after(rng, 4)
                  /\ market_calls' = market_calls + 1
          /\ call' = [op |-> "Submit", text_len |-> text_len, groq |-> groq, fp |-> fp,
                      before |-> Emotions(session_state.client), base |-> q.base,
                      grader_requests |-> TextGradeRequests(text_len),
                      requested |-> q.requested, raises |-> RaisedSoFar(call),
                      start |-> SessionStart(session_state, call)]
    /\ UNCHANGED subject

\* the script run again with the session at game over ("Rerun" of the page):
\* the score, the breakdown and the feedback computed again on the same doubles
Rerun ==
    /\ screen.page \in {"game_over", "exception"}
    /\ session_state.game_over
    /\ screen' = GameOverScreen(session_state, call.fp)
    /\ call' = [op |-> "Rerun", fp |-> call.fp, raises |-> RaisedSoFar(call),
                start |-> SessionStart(session_state, call)]
    /\ UNCHANGED <<session_state, rng, market_calls, subject>>

\* "Submit" within the clicks explored per session
Submit(comm_style, recommendation, text_len, groq, fp) ==
    /\ screen.page = "main"
    /\ Len(session_state.log) + RaisedSoFar(call) < MaxTurns
    /\ SubmitClicked(comm_style, recommendation, text_len, groq, fp)

\* "Start New Simulation": every key deleted, then the rerun's init_game check
StartNewSimulation(groq) ==
    /\ screen.page = "game_over"
    /\ LET left == KeysDeleted(session_state)
       IN  IF "client" \notin DOMAIN left
           THEN /\ session_state' = init_game(rng, groq)
                /\ rng' = random_after(rng, 15)
                /\ market_calls' = 1
           ELSE /\ session_state' = left
                /\ UNCHANGED <<rng, market_calls>>
    /\ screen' = Render(session_state', 0)
    /\ call' = [op |-> "Start New Simulation", raises |-> 0,
                start |-> Emotions(session_state'.client)]
    /\ UNCHANGED subject

\* the advisor's decisions and the collaborator's outcomes explored per turn
Play(comm_style, recommendation, text_len, groq, fp) ==
    [comm_style |-> comm_style, recommendation |-> recommendation,
     text_len |-> text_len, groq |-> groq, fp |-> fp]

Plays ==
    { Play("Empathize + explain calmly", "Stay the course (no change)", 0, GroqDown, 0),
      Play("Data-focused reassurance", "Small de-risk (-10% stocks -> bonds)", 40,
           GroqUp(Json(2, 2, 1, 3)), 0),
      Play("Firm boundary (stick to the plan)", "Larger de-risk (-20% stocks -> bonds/cash)",
           40, GroqUp(NotJson), 1),
      Play("Agree and act quickly", "Move heavily to cash (defensive)", 5,
           GroqUp(Json(1, 1, 1, 1)), -1),
      Play("Dismissive / minimize concern", "Increase risk (more stocks)", 40,
           GroqUp(Json(-2, -1, -2, -2)), 0),
      Play("Empathize + explain calmly", "Small de-risk (-10% stocks -> bonds)", 40,
           GroqDown, -1),
      Play("Data-focused reassurance", "Small de-risk (-10% stocks -> bonds)", 40,
           GroqUp(JsonNoFeedback(1, 1, 1, 1)), 0) }

Next ==
    \/ \E mode \in {"learning", "simulation"} : StartMode(mode)
    \/ \E fp \in FpErr : EndSession(fp)
    \/ \E p \in Plays : Submit(p.comm_style, p.recommendation, p.text_len, p.groq, p.fp)
    \/ \E groq \in {GroqDown, GroqUp(NotJson)} : StartNewSimulation(groq)
    \/ Rerun

Spec == Init /\ [][Next]_vars

\* ── a session played to its end: few decisions per turn, every turn ──
LimitPlays ==
    { Play("Empathize + explain calmly", "Stay the course (no change)", 0, GroqDown, 0),
      Play("Dismissive / minimize concern", "Stay the course (no change)", 40,
           GroqUp(Json(1, 1, 1, 1)), 0) }

NextLimit ==
    \/ StartMode("simulation")
    \/ EndSession(0)
    \/ \E p \in LimitPlays :
          SubmitClicked(p.comm_style, p.recommendation, p.text_len, p.groq, p.fp)
    \/ StartNewSimulation(GroqDown)
    \/ Rerun

SpecLimit == Init /\ [][NextLimit]_vars

\* ───────────────────────── function-level specifications ───────────────
\* One engine object or function driven directly, with no session around it.
NoSessionState ==
    /\ session_state = NoSession
    /\ rng = 0
    /\ market_calls = 0
    /\ screen = NoScreen

Fresh == [op |-> "new", n |-> 0]

\* ── a new Client, then apply_emotion_deltas with arbitrary deltas ──
InitClient ==
    /\ NoSessionState
    /\ \E r \in RngStates : subject = Client__init__(r)
    /\ call = Fresh

DeltaTuples ==
    { <<0, 0, 0, 0>>, <<120, -120, 7, -7>>, <<-120, 120, -7, 7>>,
      <<26, -29, 19, 12>>, <<-26, 29, -19, -12>>, <<1000, 1000, -1000, -1000>>,
      <<-3, 5, 101, -101>>, <<1, -1, 50, -50>> }

ApplyEmotionDeltas(d) ==
    /\ ~IsNone(subject)
    /\ call.op \in {"new", "apply_emotion_deltas"}
    /\ call.n < MaxCalls
    /\ LET applied == apply_emotion_deltas(subject, d[1], d[2], d[3], d[4])
       IN  /\ subject' = applied.client
           /\ call' = [op |-> "apply_emotion_deltas", n |-> call.n + 1, args |-> d,
                       before |-> Emotions(subject), result |-> applied.changes]
    /\ UNCHANGED <<session_state, rng, market_calls, screen>>

NextEmotion == \E d \in DeltaTuples : ApplyEmotionDeltas(d)

\* ── a new Client, then apply_recommendation with arbitrary recommendations ──
\* fp: the sign of (sum(client.portfolio.values()) - 1.0) as IEEE doubles
\* compute it from the three quotients, each rounded to the nearest double
ApplyRecommendation(recommendation_key, fp) ==
    /\ call.op \in {"new", "apply_recommendation"}
    /\ call.n < MaxRecs
    /\ subject' = [subject EXCEPT !.portfolio =
                      apply_recommendation(subject.portfolio, recommendation_key)]
    /\ call' = [op |-> "apply_recommendation", n |-> call.n + 1,
                recommendation |-> recommendation_key, before |-> subject.portfolio,
                sum_err |-> fp,
                clamped |-> ShiftedClamped(subject.portfolio,
                                           RECOMMENDATION_EFFECTS[recommendation_key])]
    /\ UNCHANGED <<session_state, rng, market_calls, screen>>

NextAlloc ==
    \E k \in DOMAIN RECOMMENDATION_EFFECTS, fp \in FpErr : ApplyRecommendation(k, fp)

\* ── calculate_full_turn_deltas on sampled clients ──
RECURSIVE Allocations(_)
Allocations(depth) ==
    IF depth = 0 THEN {InitialPortfolio}
    ELSE LET prev == Allocations(depth - 1)
         IN  prev \cup {apply_recommendation(p, k) :
                          p \in prev, k \in DOMAIN RECOMMENDATION_EFFECTS}

\* trait values at and between the ends of what Client.__init__ draws, and
\* at the ends of the 0-100 scale
DeltaClients ==
    { [Client__init__(0) EXCEPT !.loss_aversion = la, !.trust_propensity = tp,
                                !.risk_tolerance = rt, !.anxiety = anx, !.portfolio = pf] :
        la \in {0, 40, 90, 100}, tp \in {0, 75, 100}, rt \in {"low", "medium", "high"},
        anx \in {45, 70},
        pf \in Allocations(AllocDepth)
               \cup { [stocks |-> 1, bonds |-> 0, cash |-> 0, den |-> 1],
                      [stocks |-> 0, bonds |-> 0, cash |-> 1, den |-> 1] } }

InitDeltas ==
    /\ NoSessionState
    /\ subject \in DeltaClients
    /\ call = Fresh

CalculateFullTurnDeltas(comm_style_key, recommendation_key, regime_name, fp) ==
    /\ call.op = "new"
    /\ LET market == MarketOf(regime_name, 0)
           ret    == calculate_portfolio_return(subject.portfolio, market)
       IN  call' = [op |-> "calculate_full_turn_deltas", n |-> 1,
                    comm_style |-> comm_style_key, recommendation |-> recommendation_key,
                    market |-> market, fp |-> fp,
                    running |-> RunningDeltas(subject, comm_style_key,
                                              recommendation_key, market),
                    fit |-> check_allocation_fit(subject, fp),
                    raw |-> TurnDeltasRaw(subject, comm_style_key,
                                          recommendation_key, market, fp),
                    result |-> calculate_full_turn_deltas(subject, comm_style_key,
                                   recommendation_key, market, ret, fp)]
    /\ UNCHANGED <<session_state, rng, market_calls, screen, subject>>

NextDeltas ==
    \E c \in DOMAIN COMM_STYLE_EFFECTS, k \in DOMAIN RECOMMENDATION_EFFECTS,
       m \in DOMAIN MARKET_REGIMES, fp \in FpErr : CalculateFullTurnDeltas(c, k, m, fp)

\* ── get_client_intent on sampled clients and returns ──
IntentClients ==
    { [Client__init__(0) EXCEPT !.anxiety = anx, !.trust = tr, !.satisfaction = sat,
                                !.recency_bias = rb] :
        anx \in {0, 54, 55, 64, 65, 79, 80, 100}, tr \in {0, 19, 20, 70, 71, 100},
        sat \in {65, 66}, rb \in {65, 66} }

\* returns in basis points over a denominator, around the three thresholds
IntentReturns ==
    { [num |-> n, den |-> d] :
        n \in {-3000, -501, -500, -499, -301, -300, -299, 0, 799, 800, 801, 2200},
        d \in {1} }
    \cup { [num |-> -1501, den |-> 3], [num |-> -1500, den |-> 3], [num |-> -901, den |-> 3],
           [num |-> 2401, den |-> 3], [num |-> 2400, den |-> 3] }

InitIntent ==
    /\ NoSessionState
    /\ subject \in IntentClients
    /\ call = Fresh

GetClientIntent(portfolio_return) ==
    /\ call.op = "new"
    /\ call' = [op |-> "get_client_intent", n |-> 1, portfolio_return |-> portfolio_return,
                result |-> get_client_intent(subject, portfolio_return)]
    /\ UNCHANGED <<session_state, rng, market_calls, screen, subject>>

NextIntent == \E ret \in IntentReturns : GetClientIntent(ret)

\* ── calculate_career_score on sampled logs, final clients and values ──
ScoreClients ==
    { [Client__init__(0) EXCEPT !.trust = e[1], !.anxiety = e[2],
                                !.satisfaction = e[3], !.engagement = e[4]] :
        e \in { <<0, 100, 0, 0>>, <<100, 0, 100, 100>>, <<50, 50, 50, 50>>,
                <<72, 68, 53, 50>>, <<14, 80, 30, 9>> } }

LogEntry(turn, regime, comm_style, recommendation) ==
    [turn |-> turn, regime |-> regime, portfolio_return |-> [num |-> 0, den |-> 1],
     portfolio_value |-> STARTING_VALUE, comm_style |-> comm_style,
     recommendation |-> recommendation,
     emotional_changes |-> [trust |-> 0, anxiety |-> 0, satisfaction |-> 0,
                            engagement |-> 0]]

EntryKinds ==
    { <<"Bull Market", "Empathize + explain calmly", "Stay the course (no change)">>,
      <<"Bear Market", "Dismissive / minimize concern", "Increase risk (more stocks)">>,
      <<"Market Crisis", "Data-focused reassurance", "Move heavily to cash (defensive)">>,
      <<"Rate Shock", "Agree and act quickly", "Increase risk (more stocks)">>,
      <<"Bear Market", "Firm boundary (stick to the plan)",
        "Small de-risk (-10% stocks -> bonds)">> }

FinalValues == {0, 50000, 89999, 90000, 99999, 100000, 102499, 102500, 103000,
                105000, 106000, 107500, 109000, 250000}

InitScore ==
    /\ NoSessionState
    /\ subject \in ScoreClients
    /\ call = [op |-> "new", n |-> 0, log |-> <<>>]

AddLogEntry(kind) ==
    /\ call.op = "new"
    /\ Len(call.log) < MaxLog
    /\ call' = [call EXCEPT !.log = Append(@, LogEntry(Len(@) + 1, kind[1], kind[2], kind[3]))]
    /\ UNCHANGED <<session_state, rng, market_calls, screen, subject>>

CalculateCareerScore(final_portfolio_value, fp) ==
    /\ call.op = "new"
    /\ call' = [op |-> "calculate_career_score", n |-> 1, log |-> call.log,
                final_portfolio_value |-> final_portfolio_value, fp |-> fp,
                result |-> calculate_career_score(call.log, subject,
                                                  final_portfolio_value, fp)]
    /\ UNCHANGED <<session_state, rng, market_calls, screen, subject>>

NextScore ==
    \/ \E kind \in EntryKinds : AddLogEntry(kind)
    \/ \E v \in FinalValues, fp \in FpErr : CalculateCareerScore(v, fp)

\* ── Client.status_label on emotional states around its thresholds ──
StatusClients ==
    { [Client__init__(0) EXCEPT !.trust = t, !.anxiety = a,
                                !.satisfaction = sat, !.engagement = e] :
        t \in {29, 30, 40, 70, 71}, a \in {39, 40, 75, 76},
        sat \in {40, 45, 70}, e \in {39, 40, 70} }

InitStatus ==
    /\ NoSessionState
    /\ subject \in StatusClients
    /\ call = Fresh

StatusLabel ==
    /\ call.op = "new"
    /\ call' = [op |-> "status_label", n |-> 1, result |-> status_label(subject)]
    /\ UNCHANGED <<session_state, rng, market_calls, screen, subject>>

NextStatus == StatusLabel

\* ── calculate_career_score on logs long enough to exhaust the risk score ──
InitRisk ==
    /\ NoSessionState
    /\ subject = Client__init__(0)
    /\ call = [op |-> "new", n |-> 0, log |-> <<>>]

AddRiskEntry(kind) ==
    /\ call.op = "new"
    /\ Len(call.log) < MaxRiskLog
    /\ call' = [call EXCEPT !.log = Append(@, LogEntry(Len(@) + 1, kind[1], kind[2], kind[3]))]
    /\ UNCHANGED <<session_state, rng, market_calls, screen, subject>>

NextRisk ==
    \/ \E kind \in EntryKinds : AddRiskEntry(kind)
    \/ CalculateCareerScore(STARTING_VALUE, 0)

\* ── the trait multipliers on every client trait the engine draws ──
\* loss_aversion and trust_propensity over the ranges of Client.__init__
TraitClients ==
    { [Client__init__(0) EXCEPT !.loss_aversion = la] : la \in 40..90 }
    \cup { [Client__init__(0) EXCEPT !.trust_propensity = tp] : tp \in 30..75 }

InitTraits ==
    /\ NoSessionState
    /\ subject \in TraitClients
    /\ call = Fresh

\* step 4 applied to running deltas of +d and of -d
TraitMultipliers(d) ==
    /\ call.op = "new"
    /\ call' = [op |-> "trait_multipliers", n |-> 1, d |-> d,
                anxiety_up   |-> ScaledAnxiety(d, subject.loss_aversion),
                anxiety_down |-> ScaledAnxiety(-d, subject.loss_aversion),
                trust_up     |-> ScaledTrust(d, subject.trust_propensity),
                trust_down   |-> ScaledTrust(-d, subject.trust_propensity)]
    /\ UNCHANGED <<session_state, rng, market_calls, screen, subject>>

NextTraits == \E d \in 0..MaxDelta : TraitMultipliers(d)

\* ── grade_free_text_ai on every reply the grader can give ──
SubScores == (-MaxSubScore)..MaxSubScore

GraderOutcomes ==
    {GroqDown, GroqUp(NotJson)}
    \cup {GroqUp(Json(e, c, a, p)) : e \in SubScores, c \in SubScores,
                                      a \in SubScores, p \in SubScores}

\* stripped lengths of the advisor's text: none, just short of 10, 10 and more
TextLengths == {0, 9, 10, 40}

InitGrade ==
    /\ NoSessionState
    /\ subject = Client__init__(0)
    /\ call = Fresh

\* one call, with any text length and any outcome of the service
GradeFreeText ==
    /\ ~IsNone(subject)
    /\ call.op = "new"
    /\ \E text_len \in TextLengths, groq \in GraderOutcomes,
          context \in {get_scenario_context(subject, MarketOf("Bear Market", 0),
                                            [num |-> -600, den |-> 1], 1)} :
          call' = [op |-> "grade_free_text_ai", n |-> 1, text_len |-> text_len,
                   groq |-> groq,
                   grader_requests |-> grade_free_text_ai_requests(text_len),
                   result |-> grade_free_text_ai(text_len, context, context.intent, groq)]
    /\ UNCHANGED <<session_state, rng, market_calls, screen, subject>>

NextGrade == GradeFreeText

\* a Client driven directly, or the one of a session
SpecEmotion == (Init \/ InitClient) /\ [][Next \/ NextEmotion]_vars
SpecAlloc   == InitClient /\ [][NextAlloc]_vars
SpecDeltas  == InitDeltas /\ [][NextDeltas]_vars
SpecIntent  == InitIntent /\ [][NextIntent]_vars
SpecScore   == InitScore /\ [][NextScore]_vars
SpecTraits  == InitTraits /\ [][NextTraits]_vars
SpecRisk    == InitRisk /\ [][NextRisk]_vars
SpecStatus  == InitStatus /\ [][NextStatus]_vars
\* the grader called directly, or by the submit logic of a session
SpecGrade   == (Init \/ InitGrade) /\ [][Next \/ NextGrade]_vars

\* ───────────────────────── properties ───────────────────────────────────
InRange(x, lo, hi) == lo <= x /\ x <= hi

EmotionKeys == {"trust", "anxiety", "satisfaction", "engagement"}

\* C1: after any sequence of apply_emotion_deltas calls with arbitrary
\* deltas, trust, anxiety, satisfaction and engagement each lie in [0,100].
C1_EmotionsInRange ==
    /\ ~IsNone(subject) =>
          \A k \in EmotionKeys : InRange(Emotions(subject)[k], 0, 100)
    /\ "client" \in DOMAIN session_state =>
          \A k \in EmotionKeys : InRange(Emotions(session_state.client)[k], 0, 100)

\* a call whose requested deltas left [0,100] on both sides
C1_ClampTruncated ==
    /\ call.op = "apply_emotion_deltas"
    /\ call.before.trust + call.args[1] > 100
    /\ call.before.anxiety + call.args[2] < 0
    /\ subject.trust = 100
    /\ subject.anxiety = 0

\* C2: starting from {0.70, 0.25, 0.05}, after any sequence of
\* apply_recommendation calls each of stocks, bonds and cash is in [0,1] and
\* the three fractions sum to exactly 1 (as the program computes the sum).
C2_FractionsSumToExactlyOne ==
    LET p == subject.portfolio
    IN  /\ InRange(p.stocks, 0, p.den)
        /\ InRange(p.bonds, 0, p.den)
        /\ InRange(p.cash, 0, p.den)
        /\ p.stocks + p.bonds + p.cash = p.den
        /\ call.op = "apply_recommendation" => call.sum_err = 0

\* C3: calculate_full_turn_deltas returns d_trust in [-20,20], d_anxiety in
\* [-25,25], d_satisfaction in [-15,15] and d_engagement in [-12,12], for
\* every client, communication style, recommendation and market regime.
C3_DeltasInRange ==
    call.op = "calculate_full_turn_deltas" =>
        /\ InRange(call.result.d_trust, -20, 20)
        /\ InRange(call.result.d_anxiety, -25, 25)
        /\ InRange(call.result.d_satisfaction, -15, 15)
        /\ InRange(call.result.d_engagement, -12, 12)

\* a call in which a delta before the final clamps was out of its range
C3_FinalClampTruncated ==
    /\ call.op = "calculate_full_turn_deltas"
    /\ LET raw == TurnDeltasRaw(subject, call.comm_style, call.recommendation,
                                call.market, call.fp)
       IN  \/ ~InRange(raw.d_trust, -20, 20)
           \/ ~InRange(raw.d_anxiety, -25, 25)
           \/ ~InRange(raw.d_satisfaction, -15, 15)
           \/ ~InRange(raw.d_engagement, -12, 12)

\* C4: the value apply_emotion_deltas returns for each field is the field's
\* value after the call minus its value before; it differs from the requested
\* delta exactly when the clamp to [0,100] truncated; and it is this realized
\* delta that is written to the turn log entry (and to last_feedback).
C4_RealizedDeltaLogged ==
    call.op = "Submit" =>
        LET log     == session_state.log
            changes == log[Len(log)].emotional_changes
            after   == Emotions(session_state.client)
        IN  /\ session_state.last_feedback.changes = changes
            /\ \A k \in EmotionKeys :
                  /\ changes[k] = after[k] - call.before[k]
                  /\ (changes[k] # call.requested[k])
                        <=> ~InRange(call.before[k] + call.requested[k], 0, 100)

\* a submitted turn in which the clamp truncated a requested delta
C4_TruncatedTurn ==
    /\ call.op = "Submit"
    /\ \E k \in EmotionKeys : ~InRange(call.before[k] + call.requested[k], 0, 100)

\* C5: get_client_intent maps every combination of anxiety, trust,
\* satisfaction, recency_bias and return to exactly one of the six intents,
\* the one of the first matching rule in the order override_threat, panic,
\* concerned, greedy, confident_checkin, neutral_checkin; anxiety >= 80 or
\* trust < 20 gives override_threat whatever the return and the other fields.
C5_FirstMatchingRule ==
    call.op = "get_client_intent" =>
        LET ret == call.portfolio_return
            r1  == subject.anxiety >= 80 \/ subject.trust < 20
            r2  == subject.anxiety >= 65 /\ ret.num < -500 * ret.den
            r3  == subject.anxiety >= 55 \/ ret.num < -300 * ret.den
            r4  == ret.num > 800 * ret.den /\ subject.recency_bias > 65
            r5  == subject.trust > 70 /\ subject.satisfaction > 65
        IN  /\ call.result \in INTENTS
            /\ (call.result = "override_threat") <=> r1
            /\ (call.result = "panic") <=> (~r1 /\ r2)
            /\ (call.result = "concerned") <=> (~r1 /\ ~r2 /\ r3)
            /\ (call.result = "greedy") <=> (~r1 /\ ~r2 /\ ~r3 /\ r4)
            /\ (call.result = "confident_checkin") <=> (~r1 /\ ~r2 /\ ~r3 /\ ~r4 /\ r5)
            /\ (call.result = "neutral_checkin") <=> (~r1 /\ ~r2 /\ ~r3 /\ ~r4 /\ ~r5)

\* override_threat returned although the panic rule matches as well
C5_OverrideBeatsPanic ==
    /\ call.op = "get_client_intent"
    /\ subject.anxiety >= 80
    /\ call.portfolio_return.num < -500 * call.portfolio_return.den
    /\ call.result = "override_threat"

\* C6: for every turn log (the empty one included), every final client with
\* emotional values in [0,100] and every final portfolio value, the final
\* score of calculate_career_score is an integer in [0,100].
C6_FinalScoreInRange ==
    call.op = "calculate_career_score" =>
        /\ call.result.final_score \in Int
        /\ InRange(call.result.final_score, 0, 100)

\* a log of full length scored at the top of the range
C6_ScoredLog ==
    /\ call.op = "calculate_career_score"
    /\ Len(call.log) = MaxLog
    /\ call.result.final_score = 100

\* C7: ending the session is possible at any point of play, the empty turn
\* log included, and computing the career score, the Score Breakdown with its
\* four sub-scores and the performance feedback never raises an error.
C7_EndNeverRaises ==
    call.op = "End" =>
        /\ screen.page = "game_over"
        /\ {"portfolio_score", "relationship_score", "risk_score", "crisis_score"}
              \subseteq DOMAIN screen.breakdown

\* C8: generate_market_turn is invoked exactly once per turn, and the regime
\* and return used to update the portfolio value, to compute the turn's deltas
\* and to fill the turn's log entry are the cached ones shown for that turn.
C8_OneMarketPerTurn ==
    /\ [](market_calls = session_state.turn)
    /\ [][ call'.op = "Submit" =>
             LET log   == session_state'.log
                 entry == log[Len(log)]
                 moved == Moved(session_state.client, entry.recommendation)
             IN  /\ screen.page = "main"
                 /\ entry.turn = screen.turn
                 /\ entry.regime = screen.market.regime
                 /\ entry.portfolio_return = screen.portfolio_return
                 /\ entry.portfolio_value = Grown(session_state.portfolio_value,
                                                  screen.portfolio_return)
                 /\ session_state'.portfolio_value = entry.portfolio_value
                 /\ call'.base = calculate_full_turn_deltas(moved, entry.comm_style,
                                     entry.recommendation, screen.market,
                                     screen.portfolio_return, call'.fp) ]_vars

\* the third turn of a session is on screen: two turns submitted, three markets
C8_ThirdTurnShown ==
    /\ call.op = "Submit"
    /\ screen.page = "main"
    /\ session_state.turn = 3
    /\ market_calls = 3

\* C9: within a session the turn log is append-only and ordered: each
\* submitted turn appends exactly one entry, no existing entry is changed or
\* removed, and entry k has turn index k, starting at 1.
C9_LogAppendOnly ==
    /\ [](\A k \in 1..Len(session_state.log) : session_state.log[k].turn = k)
    /\ [][ LET old == session_state.log
               new == session_state'.log
           IN  IF call'.op = "Submit"
               THEN Len(new) = Len(old) + 1 /\ SubSeq(new, 1, Len(old)) = old
               ELSE IF call'.op = "Start New Simulation"
               THEN new = <<>>
               ELSE new = old ]_vars

\* a second entry has been appended behind the first
C9_SecondEntryAppended ==
    /\ call.op = "Submit"
    /\ Len(session_state.log) = 2
    /\ session_state.log[1].turn = 1
    /\ session_state.log[2].turn = 2

\* C10: after a full-session reset no data of the previous session survives:
\* the log is empty, the turn counter is 1, the portfolio value is 100,000,
\* game_over is false, last feedback is cleared, and the client is a newly
\* created one with allocation {0.70, 0.25, 0.05}.
C10_ResetClearsSession ==
    call.op = "Start New Simulation" =>
        /\ session_state.log = <<>>
        /\ session_state.turn = 1
        /\ session_state.portfolio_value = 100000
        /\ session_state.game_over = FALSE
        /\ IsNone(session_state.last_feedback)
        /\ session_state.started = FALSE
        /\ session_state.submitted = FALSE
        /\ \E r \in RngStates :
              /\ rng = random_after(r, 15)
              /\ session_state.client = Client__init__(r)
        /\ session_state.client.portfolio
              = [stocks |-> 14, bonds |-> 5, cash |-> 1, den |-> 20]
        /\ screen = IntroScreen

\* a reset has just been done (from a game over screen, the only place
\* that offers it)
C10_ResetDone ==
    /\ call.op = "Start New Simulation"
    /\ session_state.log = <<>>
    /\ screen.page = "intro"

SubScoreKeys == {"empathy", "clarity", "alignment", "professionalism"}

\* the grader was asked and answered
Answered(c) == c.text_len >= 10 /\ c.groq.up

\* a reply that is not JSON, or has a sub-score outside [-2,2]
Malformed(reply) ==
    ~reply.json \/ \E k \in SubScoreKeys : ~InRange(reply[k], -2, 2)

\* no grading deltas in the deltas requested of apply_emotion_deltas
NoGradingAdded(c) ==
    /\ c.requested.trust = c.base.d_trust
    /\ c.requested.anxiety = c.base.d_anxiety
    /\ c.requested.satisfaction = c.base.d_satisfaction
    /\ c.requested.engagement = c.base.d_engagement

\* C11 as stated: a malformed response (not valid JSON, or a sub-score
\* outside [-2,2]) is treated as a failure: grade_free_text_ai yields nothing
\* and no grading deltas are added to the turn's deltas.
C11_MalformedDiscarded ==
    /\ (call.op = "grade_free_text_ai" /\ Answered(call) /\ Malformed(call.groq.reply))
          => IsNone(call.result)
    /\ (call.op = "Submit" /\ Answered(call) /\ Malformed(call.groq.reply))
          => /\ IsNone(session_state.last_feedback.text_grades)
             /\ NoGradingAdded(call)

\* C11 as amended: a response that is not valid JSON is treated as a failure
\* (nothing is returned, no grading deltas are added); a JSON response with a
\* sub-score outside [-2,2] is not: each sub-score is clamped to [-2,2] and the
\* response is graded, its deltas added to the turn's.
C11_NotJsonDiscardedOutOfRangeClamped ==
    /\ (call.op = "grade_free_text_ai" /\ Answered(call)) =>
          IF ~call.groq.reply.json THEN IsNone(call.result)
          ELSE /\ ~IsNone(call.result)
               /\ \A k \in SubScoreKeys :
                     call.result[k] = Max2(-2, Min2(2, call.groq.reply[k]))
    /\ (call.op = "Submit" /\ Answered(call)) =>
          LET text_grades == session_state.last_feedback.text_grades
          IN  IF ~call.groq.reply.json
              THEN IsNone(text_grades) /\ NoGradingAdded(call)
              ELSE /\ ~IsNone(text_grades)
                   /\ \A k \in SubScoreKeys :
                         text_grades[k] = Max2(-2, Min2(2, call.groq.reply[k]))
                   /\ call.requested.trust = call.base.d_trust + text_grades.d_trust
                   /\ call.requested.anxiety = call.base.d_anxiety + text_grades.d_anxiety
                   /\ call.requested.satisfaction
                         = call.base.d_satisfaction + text_grades.d_satisfaction

\* a submitted turn graded from a reply with a sub-score of 3
C11_OutOfRangeGraded ==
    /\ call.op = "Submit"
    /\ Answered(call)
    /\ call.groq.reply.json
    /\ call.groq.reply.professionalism = 3
    /\ session_state.last_feedback.text_grades.professionalism = 2
    /\ ~NoGradingAdded(call)

\* C12: when the free text is absent or shorter than 10 characters after
\* stripping, grading is skipped entirely: the grading service is not asked,
\* nothing is returned, and the turn gets no grading deltas and no breakdown
\* line for the written response.
C12_ShortTextNotGraded ==
    /\ (call.op = "grade_free_text_ai" /\ call.text_len < 10)
          => call.grader_requests = 0 /\ IsNone(call.result)
    /\ (call.op = "Submit" /\ call.text_len < 10)
          => /\ call.grader_requests = 0
             /\ IsNone(session_state.last_feedback.text_grades)
             /\ NoGradingAdded(call)
             /\ session_state.last_feedback.breakdown = call.base.breakdown
             /\ \A i \in DOMAIN session_state.last_feedback.breakdown :
                   session_state.last_feedback.breakdown[i] # "written response"

\* a turn submitted with five characters of text while the grader would have
\* answered with a well-formed reply
C12_ShortTextSubmitted ==
    /\ call.op = "Submit"
    /\ call.text_len = 5
    /\ call.groq.up /\ call.groq.reply.json
    /\ call.grader_requests = 0
    /\ IsNone(session_state.last_feedback.text_grades)

\* t is num/den (den > 0) with its fractional part dropped
IsTruncOf(t, num, den) ==
    IF num >= 0 THEN den * t <= num /\ num < den * (t + 1)
    ELSE den * t >= num /\ num > den * (t - 1)

\* t is v limited to lo..hi
IsClampOf(t, v, lo, hi) ==
    IF v < lo THEN t = lo ELSE IF v > hi THEN t = hi ELSE t = v

\* grades holds four sub-scores in [-2,2] and the three deltas derived from
\* their sum
DerivedFromTotal(grades) ==
    LET total == grades.empathy + grades.clarity + grades.alignment
                 + grades.professionalism
    IN  /\ \A k \in SubScoreKeys : InRange(grades[k], -2, 2)
        /\ \E t \in -8..8 : IsTruncOf(t, total * 8, 10)
                             /\ IsClampOf(grades.d_trust, t, -6, 6)
        /\ \E t \in -8..8 : IsTruncOf(t, -total * 6, 10)
                             /\ IsClampOf(grades.d_anxiety, t, -5, 5)
        /\ \E t \in -8..8 : IsTruncOf(t, total * 5, 10)
                             /\ IsClampOf(grades.d_satisfaction, t, -4, 4)

\* C13: on a successful grading, with total the sum of the four sub-scores
\* clamped to [-2,2], d_trust = clamp(trunc(total*0.8), -6, 6), d_anxiety =
\* clamp(trunc(-total*0.6), -5, 5), d_satisfaction = clamp(trunc(total*0.5),
\* -4, 4); the deltas passed to apply_emotion_deltas that turn are those of
\* calculate_full_turn_deltas plus these, engagement unchanged.
C13_GradingDeltasAddedOnTop ==
    /\ (call.op = "grade_free_text_ai" /\ ~IsNone(call.result))
          => DerivedFromTotal(call.result)
    /\ (call.op = "Submit" /\ ~IsNone(session_state.last_feedback.text_grades))
          => LET text_grades == session_state.last_feedback.text_grades
             IN  /\ DerivedFromTotal(text_grades)
                 /\ call.requested.trust = call.base.d_trust + text_grades.d_trust
                 /\ call.requested.anxiety = call.base.d_anxiety + text_grades.d_anxiety
                 /\ call.requested.satisfaction
                       = call.base.d_satisfaction + text_grades.d_satisfaction
                 /\ call.requested.engagement = call.base.d_engagement

\* a turn graded -2, -1, -2, -2 (total -7): trust -5, anxiety +4,
\* satisfaction -3 on top of engine deltas that are not all zero
C13_NegativeTotalAdded ==
    /\ call.op = "Submit"
    /\ ~IsNone(session_state.last_feedback.text_grades)
    /\ call.groq.reply.empathy = -2 /\ call.groq.reply.clarity = -1
    /\ session_state.last_feedback.text_grades.d_trust = -5
    /\ session_state.last_feedback.text_grades.d_anxiety = 4
    /\ session_state.last_feedback.text_grades.d_satisfaction = -3
    /\ call.base.d_trust # 0
    /\ call.requested.trust = call.base.d_trust - 5

\* C14 as stated: for a non-empty log of n turns portfolio_score is 100 when
\* total_return >= 1.2 * 0.025 * n, else 80 when total_return >= 0.025 * n,
\* else 60 when total_return >= 0, else 35 when total_return >= -0.10, else
\* 10; a total_return exactly equal to the benchmark scores 80.
\* (total_return * 100000 is the gain; 0.025 * n * 100000 = 2500 * n.)
C14_PortfolioScoreTiers ==
    (call.op = "calculate_career_score" /\ Len(call.log) > 0) =>
        LET gain == call.final_portfolio_value - STARTING_VALUE
            n    == Len(call.log)
            portfolio_score == call.result.breakdown.portfolio_score
        IN  /\ portfolio_score =
                  IF gain >= 3000 * n THEN 100
                  ELSE IF gain >= 2500 * n THEN 80
                  ELSE IF gain >= 0 THEN 60
                  ELSE IF gain >= -10000 THEN 35
                  ELSE 10
            /\ gain = 2500 * n => portfolio_score = 80

\* entries of a log whose regime is Bear Market, Market Crisis or Rate Shock
CrisisEntries(log) ==
    {i \in DOMAIN log : log[i].regime \in {"Bear Market", "Market Crisis", "Rate Shock"}}

\* those of them answered with Empathize, Data-focused or Firm boundary
GoodCrisisEntries(log) ==
    {i \in CrisisEntries(log) : IsGoodCrisisComm(log[i].comm_style)}

\* the crisis_score the claim gives for a log
CrisisScoreIs(log, crisis_score) ==
    IF CrisisEntries(log) = {} THEN crisis_score = 70
    ELSE IsTruncOf(crisis_score, 100 * Cardinality(GoodCrisisEntries(log)),
                   Cardinality(CrisisEntries(log)))

\* C15 as stated: for every log with no Bear Market, Market Crisis or Rate
\* Shock entry the Score Breakdown's crisis_score is exactly 70; for every log
\* with such entries it is the truncated integer of 100 * (those answered with
\* Empathize, Data-focused or Firm boundary) / (their number).
C15_CrisisScore ==
    call.op = "calculate_career_score" =>
        /\ "crisis_score" \in DOMAIN call.result.breakdown
        /\ CrisisScoreIs(call.log, call.result.breakdown.crisis_score)

\* C15 for the logs of at least one turn: the crisis_score is the one stated
C15_CrisisScoreOfPlayedLog ==
    (call.op = "calculate_career_score" /\ Len(call.log) > 0)
        => CrisisScoreIs(call.log, call.result.breakdown.crisis_score)

\* the fraction num/den is pct percent
IsPercent(num, den, pct) == 100 * num = pct * den

\* C16: 'Small de-risk (-10% stocks -> bonds)' applied once to the starting
\* allocation {stocks 0.70, bonds 0.25, cash 0.05} yields stocks 0.60, bonds
\* 0.35, cash 0.05; the sum after the clamp is already 1, so renormalization
\* changes nothing.
C16_SmallDeRiskFromStart ==
    (/\ call.op = "apply_recommendation"
     /\ call.recommendation = "Small de-risk (-10% stocks -> bonds)"
     /\ IsPercent(call.before.stocks, call.before.den, 70)
     /\ IsPercent(call.before.bonds, call.before.den, 25)
     /\ IsPercent(call.before.cash, call.before.den, 5))
    => /\ IsPercent(subject.portfolio.stocks, subject.portfolio.den, 60)
       /\ IsPercent(subject.portfolio.bonds, subject.portfolio.den, 35)
       /\ IsPercent(subject.portfolio.cash, subject.portfolio.den, 5)
       /\ call.clamped.stocks + call.clamped.bonds + call.clamped.cash = call.clamped.den
       /\ \A k \in {"stocks", "bonds", "cash"} :
             call.clamped[k] * subject.portfolio.den
                = subject.portfolio[k] * call.clamped.den

\* the first call on a new client is the small de-risk
C16_SmallDeRiskApplied ==
    /\ call.op = "apply_recommendation"
    /\ call.n = 1
    /\ call.recommendation = "Small de-risk (-10% stocks -> bonds)"
    /\ call.before = InitialPortfolio
    /\ subject.portfolio.bonds * 20 = 7 * subject.portfolio.den

\* a client built from PRNG state r, holding allocation p, with the
\* emotional state of c
SameEmotions(c, r, p) ==
    [Client__init__(r) EXCEPT !.trust = c.trust, !.anxiety = c.anxiety,
                              !.satisfaction = c.satisfaction,
                              !.engagement = c.engagement,
                              !.portfolio = p]

\* C17: calculate_career_score returns the same final score and the same
\* Score Breakdown for the same log, final emotional state and final
\* portfolio value, whatever the PRNG state the client was drawn from, the
\* client's traits, name, goal and allocation. (The rounding of the doubles
\* is a function of those same inputs.)
C17_ScoreIgnoresTraitsAndPrng ==
    call.op = "calculate_career_score" =>
        \A r \in {1, RngPeriod - 1} :
            calculate_career_score(call.log,
                                   SameEmotions(subject, r,
                                       apply_recommendation(InitialPortfolio,
                                           "Move heavily to cash (defensive)")),
                                   call.final_portfolio_value, call.fp)
                = call.result

\* a scored log of three turns, and the compared PRNG states draw clients of
\* other traits than the one scored
C17_OtherTraitsSameScore ==
    /\ call.op = "calculate_career_score"
    /\ Len(call.log) = 3
    /\ call.result.final_score > 0
    /\ \A r \in {1, RngPeriod - 1} :
          /\ Client__init__(r).loss_aversion # subject.loss_aversion
          /\ Client__init__(r).trust_propensity # subject.trust_propensity

Abs(x) == IF x < 0 THEN -x ELSE x

\* C18 as stated: for every client the engine can create (loss_aversion in
\* 40..90) and every integer d > 0, the trait-multiplier step turns a running
\* anxiety delta of +d into a value whose magnitude is at least the magnitude
\* it produces for -d.
C18_NeverEasierToCalm ==
    (call.op = "trait_multipliers" /\ call.d > 0
        /\ InRange(subject.loss_aversion, 40, 90))
    => Abs(call.anxiety_up) >= Abs(call.anxiety_down)

\* C18 as amended: the magnitude for +d is at least the magnitude for -d when
\* loss_aversion is in 42..90; when it is 40 or 41, anxiety_mult is below 1
\* and the magnitude for +d is below the magnitude for -d.
C18_HarderToCalmFrom42 ==
    (call.op = "trait_multipliers" /\ call.d > 0)
    => /\ InRange(subject.loss_aversion, 42, 90)
            => Abs(call.anxiety_up) >= Abs(call.anxiety_down)
       /\ InRange(subject.loss_aversion, 40, 41)
            => Abs(call.anxiety_up) < Abs(call.anxiety_down)

\* loss_aversion 90 and d = 10: +10 becomes +12, -10 becomes -7
C18_LossAverseAsymmetry ==
    /\ call.op = "trait_multipliers"
    /\ subject.loss_aversion = 90
    /\ call.d = 10
    /\ call.anxiety_up = 12
    /\ call.anxiety_down = -7

\* scaled is what step 4 makes of the running trust delta d for trust_mult
\* = 0.75 + 0.5 * tp / 100 = (150 + tp) / 200
TrustStepIs(scaled, d, tp) ==
    IF d > 0 THEN IsTruncOf(scaled, d * (150 + tp), 200) ELSE scaled = d

\* scaled is what step 4 makes of the running anxiety delta d for
\* anxiety_mult = 0.75 + 0.6 * la / 100 = (375 + 3 la) / 500
AnxietyStepIs(scaled, d, la) ==
    IF d > 0 THEN IsTruncOf(scaled, d * (375 + 3 * la), 500)
    ELSE IF d < 0 THEN IsTruncOf(scaled, d * 500, 375 + 3 * la)
    ELSE scaled = 0

\* C19: step 4 of calculate_full_turn_deltas turns a positive running trust
\* delta into trunc(d_trust * trust_mult), a positive running anxiety delta
\* into trunc(d_anxiety * anxiety_mult), a negative one into
\* trunc(d_anxiety / anxiety_mult), and leaves zero or negative trust deltas,
\* zero anxiety deltas and the satisfaction and engagement deltas as they
\* are; the allocation-fit contributions are added after it, unscaled.
C19_TraitMultipliersThenFit ==
    call.op = "calculate_full_turn_deltas" =>
        /\ TrustStepIs(call.raw.d_trust - call.fit.d_trust,
                       call.running.d_trust, subject.trust_propensity)
        /\ AnxietyStepIs(call.raw.d_anxiety - call.fit.d_anxiety,
                         call.running.d_anxiety, subject.loss_aversion)
        /\ call.raw.d_satisfaction
              = call.running.d_satisfaction + call.fit.d_satisfaction
        /\ call.raw.d_engagement = call.running.d_engagement + call.fit.d_engagement
        /\ IsClampOf(call.result.d_trust, call.raw.d_trust, -20, 20)
        /\ IsClampOf(call.result.d_anxiety, call.raw.d_anxiety, -25, 25)
        /\ IsClampOf(call.result.d_satisfaction, call.raw.d_satisfaction, -15, 15)
        /\ IsClampOf(call.result.d_engagement, call.raw.d_engagement, -12, 12)

\* a positive trust delta and a negative anxiety delta scaled for a client
\* of trust_propensity 75 and loss_aversion 90, with an allocation too
\* aggressive for the client adding anxiety after the step
C19_ScaledThenFitAdded ==
    /\ call.op = "calculate_full_turn_deltas"
    /\ subject.trust_propensity = 75 /\ subject.loss_aversion = 90
    /\ call.running.d_trust > 0 /\ call.running.d_anxiety < 0
    /\ call.fit.d_anxiety > 0
    /\ call.raw.d_trust - call.fit.d_trust > call.running.d_trust
    /\ call.raw.d_anxiety - call.fit.d_anxiety > call.running.d_anxiety
    /\ call.raw.d_anxiety - call.fit.d_anxiety < 0

\* fit is the outcome the claim gives for a client whose stock fraction is
\* n/den and whose band is lo..hi percent
FitOutcomeIs(fit, client, n, den, lo, hi) ==
    IF 100 * n < (lo - 5) * den
    THEN /\ fit.d_trust = 0 /\ fit.d_anxiety = 0
         /\ IsTruncOf(-fit.d_satisfaction, (lo * den - 100 * n) * 30, 100 * den)
         /\ IsTruncOf(-fit.d_engagement, (lo * den - 100 * n) * 20, 100 * den)
         /\ fit.message = "too conservative"
    ELSE IF 100 * n > (hi + 5) * den
    THEN /\ IsTruncOf(fit.d_anxiety, (100 * n - hi * den) * 40, 100 * den)
         /\ IsTruncOf(-fit.d_satisfaction, (100 * n - hi * den) * 15, 100 * den)
         /\ fit.d_engagement = 0
         /\ IF client.anxiety > 60
            THEN IsTruncOf(-fit.d_trust, (100 * n - hi * den) * 25, 100 * den)
            ELSE fit.d_trust = 0
         /\ fit.message = "too aggressive"
    ELSE /\ fit.d_trust = 0 /\ fit.d_anxiety = 0
         /\ fit.d_satisfaction = 0 /\ fit.d_engagement = 0
         /\ fit.message = "none"

\* C20 as stated: for the band [lo,hi] of the client's risk_tolerance and the
\* stock fraction s, check_allocation_fit returns, if s < lo - 0.05, trust 0,
\* anxiety 0, satisfaction -trunc((lo-s)*30), engagement -trunc((lo-s)*20)
\* and the 'too conservative' message; else if s > hi + 0.05, anxiety
\* +trunc((s-hi)*40), satisfaction -trunc((s-hi)*15), engagement 0, trust
\* -trunc((s-hi)*25) if the client's anxiety is above 60 and else 0, and the
\* 'too aggressive' message; else all zeros and no message.
C20_AllocationFitOutcomes ==
    call.op = "calculate_full_turn_deltas" =>
        FitOutcomeIs(call.fit, subject, subject.portfolio.stocks, subject.portfolio.den,
                     RISK_STOCK_RANGES[subject.risk_tolerance][1],
                     RISK_STOCK_RANGES[subject.risk_tolerance][2])

\* C20 where the doubles carry no rounding error: the outcome is the stated one
C20_OutcomesWithoutRounding ==
    (call.op = "calculate_full_turn_deltas" /\ call.fp = 0) =>
        FitOutcomeIs(call.fit, subject, subject.portfolio.stocks, subject.portfolio.den,
                     RISK_STOCK_RANGES[subject.risk_tolerance][1],
                     RISK_STOCK_RANGES[subject.risk_tolerance][2])

\* a/b and c/d (b, d > 0) are the same fraction
SameFraction(a, b, c, d) ==
    /\ a \div GCD(a, b) = c \div GCD(c, d)
    /\ b \div GCD(a, b) = d \div GCD(c, d)

\* C21: from the initial allocation {0.70, 0.25, 0.05}, after any sequence of
\* the five recommendations the sum of the three fractions after the clamp
\* step of apply_recommendation is never 0: the 'sum is 0' branch is not
\* taken and the fractions left are the clamped ones divided by their sum.
C21_ClampedSumPositive ==
    call.op = "apply_recommendation" =>
        LET total == call.clamped.stocks + call.clamped.bonds + call.clamped.cash
        IN  /\ total > 0
            /\ \A k \in {"stocks", "bonds", "cash"} :
                  SameFraction(subject.portfolio[k], subject.portfolio.den,
                               call.clamped[k], total)

\* a call whose clamp raised a negative stock fraction to 0, leaving a sum
\* above 1 for the division to bring back
C21_ClampedThenRenormalized ==
    /\ call.op = "apply_recommendation"
    /\ call.n >= 2
    /\ call.clamped.stocks = 0
    /\ call.clamped.stocks + call.clamped.bonds + call.clamped.cash > call.clamped.den
    /\ subject.portfolio.stocks + subject.portfolio.bonds + subject.portfolio.cash
          = subject.portfolio.den

\* entries of a log recommending 'Move heavily to cash (defensive)'
PanicEntries(log) ==
    {i \in DOMAIN log : log[i].recommendation = "Move heavily to cash (defensive)"}

\* entries recommending 'Increase risk (more stocks)' in a Bear Market or a
\* Market Crisis
SwingEntries(log) ==
    {i \in DOMAIN log : /\ log[i].recommendation = "Increase risk (more stocks)"
                        /\ log[i].regime \in {"Bear Market", "Market Crisis"}}

\* C22: for every non-empty log, risk_score = max(0, 100 - 20 * (panic_moves
\* + aggressive_swings)), panic_moves counting the 'Move heavily to cash
\* (defensive)' entries and aggressive_swings the 'Increase risk (more
\* stocks)' entries whose regime is Bear Market or Market Crisis.
C22_RiskScore ==
    (call.op = "calculate_career_score" /\ Len(call.log) > 0) =>
        LET bad_moves == Cardinality(PanicEntries(call.log))
                         + Cardinality(SwingEntries(call.log))
        IN  /\ call.result.breakdown.panic_moves = Cardinality(PanicEntries(call.log))
            /\ call.result.breakdown.risk_score
                  = IF 20 * bad_moves >= 100 THEN 0 ELSE 100 - 20 * bad_moves

\* six bad moves (the floor), one 'increase risk' in a Rate Shock among the
\* other entries not counted
C22_FloorReached ==
    /\ call.op = "calculate_career_score"
    /\ Len(call.log) = MaxRiskLog
    /\ Cardinality(PanicEntries(call.log)) + Cardinality(SwingEntries(call.log)) = 6
    /\ call.result.breakdown.risk_score = 0

\* an 'Increase risk (more stocks)' turn in a Rate Shock leaves the score at 100
C22_RateShockNotCounted ==
    /\ call.op = "calculate_career_score"
    /\ Len(call.log) = 2
    /\ \A i \in DOMAIN call.log :
          /\ call.log[i].regime = "Rate Shock"
          /\ call.log[i].recommendation = "Increase risk (more stocks)"
    /\ call.result.breakdown.risk_score = 100

\* mean(trust, satisfaction, engagement) > m and < m, without the division
MeanAbove(c, m) == c.trust + c.satisfaction + c.engagement > 3 * m
MeanBelow(c, m) == c.trust + c.satisfaction + c.engagement < 3 * m

\* C23: status_label returns exactly one of four labels by the first
\* matching rule: anxiety > 75 gives crisis; mean(trust, satisfaction,
\* engagement) > 70 and anxiety < 40 gives strong; mean < 40 or trust < 30
\* gives at-risk; otherwise stable. Crisis is returned whenever anxiety > 75,
\* even if the at-risk condition also holds.
C23_StatusByFirstMatch ==
    call.op = "status_label" =>
        LET crisis  == subject.anxiety > 75
            strong  == MeanAbove(subject, 70) /\ subject.anxiety < 40
            at_risk == MeanBelow(subject, 40) \/ subject.trust < 30
        IN  /\ call.result \in {"Crisis Mode", "Strong Relationship",
                                "At Risk of Leaving", "Stable"}
            /\ call.result = "Crisis Mode" <=> crisis
            /\ call.result = "Strong Relationship" <=> (~crisis /\ strong)
            /\ call.result = "At Risk of Leaving" <=> (~crisis /\ ~strong /\ at_risk)
            /\ call.result = "Stable" <=> (~crisis /\ ~strong /\ ~at_risk)

\* anxiety 76 with trust 29 and a mean below 40: crisis, not at-risk
C23_CrisisBeatsAtRisk ==
    /\ call.op = "status_label"
    /\ subject.anxiety = 76 /\ subject.trust = 29
    /\ MeanBelow(subject, 40)
    /\ call.result = "Crisis Mode"

\* the fixed traits of a client
Traits(c) ==
    [loss_aversion |-> c.loss_aversion, trust_propensity |-> c.trust_propensity,
     control_preference |-> c.control_preference, recency_bias |-> c.recency_bias,
     risk_tolerance |-> c.risk_tolerance, name |-> c.name, goal |-> c.goal]

\* the emotional state apply_emotion_deltas leaves for the deltas d
AfterDeltas(before, d) ==
    [k \in EmotionKeys |-> Max2(0, Min2(100, before[k] + d[k]))]

\* C24: within a session the client's trust, anxiety, satisfaction and
\* engagement change only inside apply_emotion_deltas: a submitted turn
\* leaves the values before it moved by the deltas requested, whatever
\* apply_recommendation, check_allocation_fit, calculate_full_turn_deltas and
\* the building of the next scenario did; starting a mode and ending the
\* session (calculate_career_score, generate_performance_feedback) leave them
\* unchanged; the fixed traits never change while the client lives.
C24_EmotionsChangeOnlyByDeltas ==
    [][ call'.op # "Start New Simulation" =>
          /\ Traits(session_state'.client) = Traits(session_state.client)
          /\ Emotions(session_state'.client)
                = IF call'.op = "Submit"
                  THEN AfterDeltas(Emotions(session_state.client), call'.requested)
                  ELSE Emotions(session_state.client) ]_vars

\* a second submitted turn that moved the client's emotional state
C24_EmotionsMovedBySubmit ==
    /\ call.op = "Submit"
    /\ Len(session_state.log) = 2
    /\ Emotions(session_state.client) # call.before
    /\ Emotions(session_state.client) = AfterDeltas(call.before, call.requested)
    /\ session_state.client.portfolio # InitialPortfolio

\* the grading service asked and not answering as its interface requires: no
\* answer, an answer that is not JSON, or one without the feedback sentence
GraderFailed(c) ==
    /\ c.text_len >= 10
    /\ (~c.groq.up \/ ~c.groq.reply.json \/ ~c.groq.reply.feedback)

\* a click of "Submit" completed as a turn: the allocation moved by the
\* recommendation logged, one entry appended, the next turn or the game over
\* screen reached
TurnCompleted(ss, after, shown) ==
    /\ Len(after.log) = Len(ss.log) + 1
    /\ after.client.portfolio
          = apply_recommendation(ss.client.portfolio,
                                 after.log[Len(after.log)].recommendation)
    /\ \/ after.game_over /\ shown.page \in {"game_over", "exception"}
       \/ ~after.game_over /\ after.turn = ss.turn + 1 /\ shown = MainScreen(after)

\* C25: when the grading collaborator fails during a submitted turn, the
\* failure does not propagate: the turn still completes (allocation updated,
\* one log entry appended, next turn or game over reached), and the deltas
\* passed to apply_emotion_deltas are exactly those returned by
\* calculate_full_turn_deltas, with no grading contribution.
C25_GraderFailureCompletesTurn ==
    [][ (call'.op \in {"Submit", "Submit raised"} /\ GraderFailed(call')) =>
          /\ TurnCompleted(session_state, session_state', screen')
          /\ NoGradingAdded(call') ]_vars

\* the failures grade_free_text_ai catches (no answer, an answer that is not
\* JSON) do leave the turn completed on the engine's deltas alone
C25_CaughtFailureCompletesTurn ==
    [][ (call'.op \in {"Submit", "Submit raised"} /\ call'.text_len >= 10
           /\ (~call'.groq.up \/ ~call'.groq.reply.json)) =>
          /\ TurnCompleted(session_state, session_state', screen')
          /\ NoGradingAdded(call') ]_vars

\* a turn left half done by a reply without its feedback sentence: the
\* portfolio value and the allocation written, the emotions, the log and the
\* turn as they were, the main screen still up for another "Submit"
C25_TurnLeftHalfDone ==
    /\ call.op = "Submit raised"
    /\ screen.page = "main"
    /\ session_state.turn = 1
    /\ session_state.log = <<>>
    /\ session_state.portfolio_value # 100000
    /\ session_state.client.portfolio # InitialPortfolio
    /\ Emotions(session_state.client) = call.before

\* C26: every session ends after at most 10 submitted turns: the turn counter
\* never exceeds 10, the turn log never holds more than 10 entries and is
\* closed by game over once it holds 10, and a submitted turn sets game_over
\* exactly when its turn index is >= 10 or the client's trust after the turn
\* is < 15 or the engagement after the turn is < 10.
C26_EndsWithinTenTurns ==
    /\ [](/\ session_state.turn <= 10
          /\ Len(session_state.log) <= 10
          /\ (Len(session_state.log) = 10 => session_state.game_over))
    /\ [][ call'.op = "Submit" =>
             (session_state'.game_over
                 <=> \/ session_state.turn >= 10
                     \/ session_state'.client.trust < 15
                     \/ session_state'.client.engagement < 10) ]_vars

\* a session ended by its tenth turn alone, the client still on board
C26_TenthTurnEndsSession ==
    /\ call.op = "Submit"
    /\ session_state.game_over
    /\ session_state.turn = 10
    /\ Len(session_state.log) = 10
    /\ session_state.client.trust >= 15
    /\ session_state.client.engagement >= 10

\* a session ended before its tenth turn by the client's lost trust
C26_LostTrustEndsSession ==
    /\ call.op = "Submit"
    /\ session_state.game_over
    /\ session_state.turn < 10
    /\ session_state.client.trust < 15
    /\ session_state.client.engagement >= 10

\* a session ended before its tenth turn by the client's lost engagement
C26_LostEngagementEndsSession ==
    /\ call.op = "Submit"
    /\ session_state.game_over
    /\ session_state.turn < 10
    /\ session_state.client.trust >= 15
    /\ session_state.client.engagement < 10

\* what the game over screen computes the score, the breakdown and the
\* feedback from
ScoreInputs(ss) == <<ss.log, ss.client, ss.portfolio_value>>

\* C27: once game_over is set the session is frozen until reset: the only
\* steps left are the reset and the game over screen computed again; no turn
\* is submitted, and the client's emotions, the allocation, the portfolio
\* value, the turn counter and the turn log stay as they are, so every
\* computation of the score on the game over screen has the same inputs and
\* shows the same report.
C27_FrozenAfterGameOver ==
    [][ session_state.game_over =>
          /\ call'.op \in {"Rerun", "Start New Simulation"}
          /\ call'.op = "Rerun" =>
                /\ Emotions(session_state'.client) = Emotions(session_state.client)
                /\ session_state'.client.portfolio = session_state.client.portfolio
                /\ session_state'.portfolio_value = session_state.portfolio_value
                /\ session_state'.turn = session_state.turn
                /\ session_state'.log = session_state.log
                /\ session_state'.game_over
                /\ ScoreInputs(session_state') = ScoreInputs(session_state)
                /\ screen' = screen ]_vars

\* the report of a session of two turns computed a second time
C27_ReportComputedAgain ==
    /\ call.op = "Rerun"
    /\ session_state.game_over
    /\ screen.page = "game_over"
    /\ screen.turns = 2
    /\ Len(session_state.log) = 2

\* C28: within one submitted turn the steps run in this order: the portfolio
\* value is multiplied by (1 + cached return), the cached return being the one
\* computed from the allocation the turn began with, before its
\* recommendation; then apply_recommendation changes the allocation; then
\* calculate_full_turn_deltas runs on the post-recommendation allocation and
\* the pre-turn emotions; then apply_emotion_deltas runs; and only then the
\* next turn's return, scenario context and intent are built, from the
\* updated client.
C28_TurnStepsInOrder ==
    /\ [](screen.page = "main" =>
             session_state.portfolio_return
                = calculate_portfolio_return(TurnAllocation(session_state, call),
                                             session_state.market))
    /\ [][ call'.op = "Submit" =>
             LET log   == session_state'.log
                 entry == log[Len(log)]
                 seen  == [session_state.client EXCEPT
                              !.portfolio = session_state'.client.portfolio]
             IN  /\ session_state'.portfolio_value
                       = Grown(session_state.portfolio_value,
                               session_state.portfolio_return)
                 /\ session_state'.client.portfolio
                       = apply_recommendation(session_state.client.portfolio,
                                              entry.recommendation)
                 /\ call'.base
                       = calculate_full_turn_deltas(seen, entry.comm_style,
                             entry.recommendation, session_state.market,
                             session_state.portfolio_return, call'.fp)
                 /\ Emotions(session_state'.client)
                       = AfterDeltas(Emotions(session_state.client), call'.requested)
                 /\ ~session_state'.game_over =>
                       /\ session_state'.portfolio_return
                             = calculate_portfolio_return(session_state'.client.portfolio,
                                                          session_state'.market)
                       /\ session_state'.context
                             = get_scenario_context(session_state'.client,
                                   session_state'.market,
                                   session_state'.portfolio_return,
                                   session_state'.turn)
                       /\ session_state'.context.intent
                             = get_client_intent(session_state'.client,
                                                 session_state'.portfolio_return) ]_vars

\* a first turn in which the order shows: the allocation-fit check answered
\* for the allocation the recommendation left, not the one before it, the
\* emotions moved, and the next turn's context holds the anxiety after the move
C28_FitSawMovedAllocation ==
    /\ call.op = "Submit"
    /\ screen.page = "main"
    /\ Len(session_state.log) = 1
    /\ session_state.client.portfolio # InitialPortfolio
    /\ \E i \in DOMAIN call.base.breakdown :
          /\ call.base.breakdown[i] \in {"too conservative", "too aggressive"}
          /\ call.base.breakdown[i]
                = check_allocation_fit(session_state.client, call.fp).message
    /\ check_allocation_fit([session_state.client EXCEPT !.portfolio = InitialPortfolio],
                            call.fp).message = "none"
    /\ session_state.client.anxiety # call.before.anxiety
    /\ session_state.context.anxiety = session_state.client.anxiety
    /\ session_state.context.turn_number = session_state.turn

\* the sum of one field's emotional_changes over the entries of a turn log
RECURSIVE LoggedChange(_, _)
LoggedChange(log, k) ==
    IF log = <<>> THEN 0
    ELSE log[1].emotional_changes[k] + LoggedChange(Tail(log), k)

\* C29: in every reachable session state, for each of trust, anxiety,
\* satisfaction and engagement, the client's current value equals its value
\* at session start plus the sum of that field's emotional_changes over all
\* turn log entries.
C29_EmotionsAreStartPlusLog ==
    \A k \in EmotionKeys :
        session_state.client[k]
           = SessionStart(session_state, call)[k] + LoggedChange(session_state.log, k)

\* a session of three turns whose last turn was cut by the clamp: the log
\* holds less than was requested, and the sums still meet the client
C29_ThreeTurnsOneClamped ==
    /\ call.op = "Submit"
    /\ Len(session_state.log) = 3
    /\ Emotions(session_state.client) # call.start
    /\ \E k \in EmotionKeys :
          /\ session_state.log[3].emotional_changes[k] # call.requested[k]
          /\ session_state.log[1].emotional_changes[k] # 0
          /\ session_state.log[2].emotional_changes[k] # 0

\* C30: in every submitted turn, with or without a successful free-text
\* grading, the deltas requested of apply_emotion_deltas lie in: trust
\* [-26,26], anxiety [-29,29], satisfaction [-19,19], engagement [-12,12]:
\* the final clamp bounds of calculate_full_turn_deltas, widened only by the
\* grading deltas, which lie in trust [-6,6], anxiety [-4,4] and satisfaction
\* [-4,4] whatever the service replies; engagement gets no grading delta.
C30_RequestedDeltasInRange ==
    /\ (call.op = "grade_free_text_ai" /\ ~IsNone(call.result)) =>
          /\ InRange(call.result.d_trust, -6, 6)
          /\ InRange(call.result.d_anxiety, -4, 4)
          /\ InRange(call.result.d_satisfaction, -4, 4)
    /\ call.op = "Submit" =>
          /\ InRange(call.requested.trust, -26, 26)
          /\ InRange(call.requested.anxiety, -29, 29)
          /\ InRange(call.requested.satisfaction, -19, 19)
          /\ InRange(call.requested.engagement, -12, 12)
          /\ InRange(call.base.d_trust, -20, 20)
          /\ InRange(call.base.d_anxiety, -25, 25)
          /\ InRange(call.base.d_satisfaction, -15, 15)
          /\ InRange(call.requested.trust - call.base.d_trust, -6, 6)
          /\ InRange(call.requested.anxiety - call.base.d_anxiety, -4, 4)
          /\ InRange(call.requested.satisfaction - call.base.d_satisfaction, -4, 4)
          /\ call.requested.engagement = call.base.d_engagement

\* a graded turn whose requested anxiety and trust deltas lie beyond the
\* final clamps of calculate_full_turn_deltas, the anxiety clamp having cut
C30_GradingWidenedClamp ==
    /\ call.op = "Submit"
    /\ ~IsNone(session_state.last_feedback.text_grades)
    /\ call.base.d_anxiety = 25
    /\ call.requested.anxiety > 25
    /\ call.requested.trust < -20

\* the grader's deltas at the ends of their ranges
C30_GradingDeltasAtTheirEnds ==
    /\ call.op = "grade_free_text_ai"
    /\ ~IsNone(call.result)
    /\ call.result.d_trust = 6
    /\ call.result.d_anxiety = -4
    /\ call.result.d_satisfaction = 4

====
